---- MODULE Spec2Model ----
(***************************************************************************)
(* Model of logdump's tailing and buffering engine                         *)
(* (internal/logtail/logtail.go) with the two query tools of the MCP       *)
(* server that read it (internal/mcp/mcp.go: toolRead, toolGrep).          *)
(*                                                                         *)
(* A file is a sequence of bytes; writers outside the program append to    *)
(* it.  Each followed file has one Stream whose goroutine (Stream.read)    *)
(* polls the file, cuts it into lines and submits one LogEntry per line to *)
(* the Manager's entries channel.  The goroutine started by StartBuffering *)
(* receives from that channel and calls AddEntry, which appends to the     *)
(* bounded history buffer under bufferMu.  GetEntries and Search read the  *)
(* buffer under the read side of bufferMu.                                 *)
(***************************************************************************)
EXTENDS Integers, Sequences, FiniteSets, TLC

(***************************************************************************)
(* Bounds of the model.                                                    *)
(***************************************************************************)
\* number of write calls the writers make in total
MaxWrites == 3
\* capacity of the history buffer (1000 in AddEntry), scaled down
Capacity == 4
\* capacity of the entries channel (10000 in NewManagerWithOptions), scaled down
ChanCap == 1
\* capacity of a Search result channel (100 in Search), scaled down
ResultsCap == 1

(***************************************************************************)
(* Configuration: two sources.  "app" has a pattern that matches two files *)
(* of its directory, "db" matches one.                                     *)
(***************************************************************************)
Paths == {"a.log", "b.log", "c.log"}

SourceNames == {"app", "db"}

NL == "\n"

\* what one write call of the writer of file p appends to it
Chunks(p) == IF p = "b.log" THEN { <<"x", NL>> } ELSE { <<"E", NL>> }

\* StreamConfig.Matches: does a pattern of source s match the base name of p
\* (patterns a.log and b.log for app, c.log for db, *.log for all)
Matches(s, p) ==
    \/ s = "app" /\ p \in {"a.log", "b.log"}
    \/ s = "db" /\ p = "c.log"
    \/ s = "all" /\ p \in Paths

\* A LogEntry.  Timestamp, Tags and Filtered are left out: nothing modelled
\* here reads them.  File is a history field that LogEntry does not have: the
\* path of the file the line was read from.
NoEntry == [Source |-> "", Content |-> <<>>, LineNumber |-> 0, File |-> ""]

VARIABLES
    file,        \* file[p]: the bytes of the file at path p
    written,     \* number of write calls made so far
    streams,     \* Manager.streams: path -> Stream record
    tailed,      \* sources whose Tail call has run
    ctxDone,     \* Manager.ctx is cancelled
    entries,     \* Manager.entries: the buffered channel
    detached,    \* entries held by the goroutines started when the channel was full
    buffer,      \* Manager.buffer
    drain,       \* the goroutine of StartBuffering: pc and the entry it holds
    emitted,     \* history: every entry constructed by a Stream, in construction order
    appended,    \* history: every entry passed to AddEntry, in the order of the appends
    search,      \* the last Manager.Search call, its goroutine and its result channel
    grep,        \* the toolGrep call that made the Search call and consumes its results
    reqCtxDone,  \* the context handed to Search is cancelled
    readOut,     \* the last GetEntries call: its arguments and what it returned
    tailOnly,    \* Manager.tailOnly
    exists,      \* the paths at which a file exists in the log directory
    unreadable,  \* the paths at which os.Open fails
    watching,    \* sources for which a watchDirectory goroutine runs
    globbed,     \* history: globbed[s] is what Tail(s) found in the directory
    display,     \* the consumer that receives from Entries() for the live display
    toolOut,     \* the last logdump_read call: its arguments and what it returned
    logGroups,   \* Server.logGroups: the groups by name
    createOut,   \* the last logdump_create_group call: its arguments
    srv,         \* the MCP server process: "up", or "down" after a panic
    cfgStreams,  \* Config.Streams
    disc,        \* the log directory, the -exclude names and the AutoDiscover call
    started,     \* started[p]: number of read goroutines started for path p
    scans,       \* the Tail call or watcher tick of each source that is in its loop
    pending,     \* pending[p]: the entry the Stream of p has built and not yet submitted
    dropped,     \* entries built before Close that the select of a Stream dropped
    res,         \* the last resources/list result and the resource last read
    conns,       \* the connections: the request each one is handling
    shared,      \* Server.accessLog, accessMu (its holder) and currentAgent
    tui          \* the Model of the viewer: its buffers, its search and its stream selection

\* the variables of the query side
qvars == <<search, grep, reqCtxDone, readOut>>

\* the variables of discovery, of the live display and of the groups
xvars == <<tailOnly, exists, unreadable, watching, globbed, display, toolOut>>

\* the variables of the MCP server and of the configuration
yvars == <<logGroups, createOut, srv>>

\* the variables of the configuration
cvars == <<cfgStreams, disc>>

\* the variables of the scans of the log directory
svars == <<started, scans>>

\* the variables of the submission of an entry
dvars == <<pending, dropped>>

\* the variables of the shared state of the request handlers and of the viewer
mvars == <<conns, shared, tui>>

\* the variables of the resources, of the shared state of the MCP server and
\* of the viewer
ovars == <<res, mvars>>

zvars == <<svars, dvars, ovars>>

vars == <<file, written, streams, tailed, ctxDone, entries, detached,
          buffer, drain, emitted, appended, search, grep, reqCtxDone, readOut,
          tailOnly, exists, unreadable, watching, globbed, display, toolOut,
          logGroups, createOut, srv, cfgStreams, disc,
          started, scans, pending, dropped, res, conns,
          shared,
          tui>>

(***************************************************************************)
(* Helpers on sequences.                                                   *)
(***************************************************************************)
\* the last n elements of s (all of s if it is shorter)
LastN(s, n) == IF Len(s) <= n THEN s ELSE SubSeq(s, Len(s) - n + 1, Len(s))

\* index of the first newline in data, 0 if there is none
RECURSIVE FirstNL(_, _)
FirstNL(data, i) ==
    IF i > Len(data) THEN 0
    ELSE IF data[i] = NL THEN i
    ELSE FirstNL(data, i + 1)

\* the subsequence of s whose elements satisfy the source filter
RECURSIVE FilterSource(_, _)
FilterSource(s, source) ==
    IF s = <<>> THEN <<>>
    ELSE IF source = "" \/ Head(s).Source = source
         THEN <<Head(s)>> \o FilterSource(Tail(s), source)
         ELSE FilterSource(Tail(s), source)

(***************************************************************************)
(* Stream records.  pc is the position of the goroutine running            *)
(* Stream.read: "poll" at the top of the outer loop, "read" inside the     *)
(* inner ReadString loop, "done" after it has returned.  offset is the     *)
(* local cursor, pos the position of the file handle, rbuf the bytes the   *)
(* bufio.Reader of this iteration holds and has not handed out yet.        *)
(***************************************************************************)
NoStream == [open |-> FALSE]

\* born is a history field, kept for a tail-only Manager: the size of the
\* file when addFile made the Stream.  failedAt is a history field: -1, or
\* the number of entries all Streams had emitted when a Seek or a read of
\* this Stream failed.
NewStream(s) ==
    [open |-> TRUE, Name |-> s, LineNumber |-> 0, pc |-> "start",
     offset |-> 0, pos |-> 0, rbuf |-> <<>>, closed |-> FALSE, born |-> 0,
     failedAt |-> -1]

\* no Search call yet.  g is the pc of the goroutine Search starts: "rlock"
\* before it holds the read lock, "scan" while it holds it, "done" after it
\* has returned.  idx and n are the position and the length of its range
\* loop.  snap (the buffer when the read lock was taken), delivered (every
\* entry sent on the result channel) and cancelled are history fields, and
\* so is prev: what the Search before this one was asked and delivered.
NoPrev == [set |-> FALSE, pattern |-> <<>>, source |-> "", snap |-> <<>>,
           delivered |-> <<>>]

NoSearch ==
    [status |-> "none", pattern |-> <<>>, source |-> "", g |-> "none",
     idx |-> 0, n |-> 0, results |-> <<>>, closed |-> FALSE,
     snap |-> <<>>, delivered |-> <<>>, cancelled |-> FALSE, prev |-> NoPrev]

\* no toolGrep call yet.  source and group are the arguments of the request.
NoGrep == [pc |-> "idle", limit |-> 0, count |-> 0, lines |-> <<>>, error |-> FALSE,
           source |-> "", group |-> ""]

\* no GetEntries or GetBuffer call yet.  op is the method that was called.
\* snap is a history field: the buffer the call read.  again is a history
\* field: set when the call before was the same call and read the same
\* buffer, and then its result.
NoAgain == [set |-> FALSE, result |-> <<>>]

NoRead == [called |-> FALSE, op |-> "", source |-> "", limit |-> 0, result |-> <<>>,
           snap |-> <<>>, again |-> NoAgain]

\* The groups of the configuration, which NewServer copies to
\* Server.logGroups: group "one" has one stream, group "two" has two; their
\* pattern is written in lower case.  CreatedAt is left out.
GroupNames == {"one", "two"}

LogGroups ==
    [g \in GroupNames |->
        IF g = "one"
        THEN [Name |-> g, Pattern |-> <<"e">>, Color |-> "red", Streams |-> <<"app">>]
        ELSE [Name |-> g, Pattern |-> <<"e">>, Color |-> "red",
              Streams |-> <<"app", "db">>]]

\* The streams of the configuration file: Config.Streams after Load.  A file
\* name is the pair of its name without the extension and its extension.
\* Tags are left out.
Configured ==
    << [Name |-> "app", Path |-> "logs",
        Patterns |-> << <<"a", ".log">>, <<"b", ".log">> >>, Color |-> "green"],
       [Name |-> "db", Path |-> "logs",
        Patterns |-> << <<"c", ".log">> >>, Color |-> "red"] >>

\* AutoDiscover was not called yet.  dirExists and files are the log
\* directory, exclude the names of -exclude; before is a history field:
\* Config.Streams when AutoDiscover was called.
NoDisc == [dirExists |-> FALSE, files |-> {}, exclude |-> {}, called |-> FALSE,
           before |-> <<>>]

\* no logdump_create_group call yet: the arguments of the last call.
\* streams is the argument as the client sent it, before it is split.
NoCreate == [called |-> FALSE, name |-> "", pattern |-> <<>>, color |-> "",
             streams |-> <<>>]

\* nobody receives from Entries() for the display yet.  got is what the
\* display has received; before (the entries submitted before it started to
\* receive) and taken (the entries the drain goroutine had received by then)
\* are history fields.
NoDisplay == [on |-> FALSE, got |-> <<>>, before |-> {}, taken |-> {}]

\* no logdump_read call yet
\* tool is "read" for logdump_read and "resource" for a resources/read of
\* logdump://group/<group>; answered: a response was written to the client;
\* error: the response carries an error; pattern: the group pattern the call
\* compiled (empty if it compiled none).
NoTool == [called |-> FALSE, tool |-> "", source |-> "", group |-> "", limit |-> 0,
           result |-> <<>>, snap |-> <<>>, answered |-> FALSE, error |-> FALSE,
           pattern |-> <<>>]

\* No resources/list and no resources/read yet.  listing is the set of the
\* resources of the last resources/list, each with its uri (the prefix and
\* what follows it) and its name; read is the resource of the listing whose
\* uri the last resources/read was called with.
NoRes == [listing |-> {}, read |-> [uri |-> <<>>, name |-> ""]]

\* the connections of the WebSocket transport: each one is a goroutine that
\* handles its requests one after the other (handleWebSocket)
Conns == {"c1", "c2"}

\* a connection that is between two requests.  old is the value of the
\* variable it is reading when the read began, seen the value the read gave.
NoConn == [pc |-> "idle", tool |-> "", arg |-> <<>>, agentOld |-> <<>>,
           agentID |-> <<>>, todo |-> {}, path |-> "", old |-> 0, seen |-> 0]

NoConns == [c \in Conns |-> NoConn]

\* the capacity of logBuffer and filteredBuffer of the viewer, 1000 in New
\* and in updateLogs
ViewCap == 2

\* make([]LogEntry, 0, n): a slice is a backing array, the offset of its
\* first element in it and its length; its capacity is what is left of the
\* array from the offset on
Make(n) == [arr |-> [i \in 1..n |-> NoEntry], off |-> 0, len |-> 0]

\* the Model of the viewer after New: two buffers with an array each, every
\* stream selected, no search.  shared: logBuffer and filteredBuffer have
\* the same backing array.  arrived is a history field: the entries
\* updateLogs has received since the buffers were last cleared.
NoTui == [logBuffer |-> Make(ViewCap), filteredBuffer |-> Make(ViewCap),
          shared |-> FALSE, searchQuery |-> <<>>, searchMode |-> FALSE,
          selectedStreams |-> [s \in SourceNames |-> TRUE], paused |-> FALSE,
          arrived |-> <<>>]

\* Server.accessLog, accessMu and currentAgent after NewServer
NoShared == [accessLog |-> <<>>, accessMu |-> "", currentAgent |-> <<>>]

\* The Stream has no entry between lines 173 and 181.  early is a history
\* field: the context was not cancelled when the entry was built.
NoPending == [set |-> FALSE, entry |-> NoEntry, early |-> FALSE]

\* the sources of a configuration in which every file of app is also a file
\* of all
ScanSources == {"app", "all"}

\* No Tail call and no watcher tick is in its loop.  pc is "idle" before
\* Tail, "tail" in the loop of Tail, "tick" in the loop of a tick of the
\* watcher and "done" between; todo holds the matches of the glob the loop
\* has not reached, n is their number at the glob; seen is a history field:
\* the paths the source has called addFile for.
NoScans == [s \in ScanSources |-> [pc |-> "idle", todo |-> <<>>, n |-> 0, seen |-> {}]]

\* RunStdio serves the one client of the process in the loop of handleStdio;
\* RunWebsocket serves every connection in a goroutine of net/http.
Transports == {"stdio", "websocket"}

Init ==
    /\ file = [p \in Paths |-> <<>>]
    /\ written = 0
    /\ streams = [p \in Paths |-> NoStream]
    /\ tailed = {}
    /\ ctxDone = FALSE
    /\ entries = <<>>
    /\ detached = {}
    /\ buffer = <<>>
    /\ drain = [pc |-> "off", entry |-> NoEntry]
    /\ emitted = <<>>
    /\ appended = <<>>
    /\ search = NoSearch
    /\ grep = NoGrep
    /\ reqCtxDone = FALSE
    /\ readOut = NoRead
    /\ tailOnly = FALSE
    /\ exists = Paths
    /\ unreadable = {}
    /\ watching = {}
    /\ globbed = [s \in SourceNames |-> {}]
    /\ display = NoDisplay
    /\ toolOut = NoTool
    /\ logGroups = LogGroups
    /\ createOut = NoCreate
    /\ srv = "up"
    /\ cfgStreams = Configured
    /\ disc = NoDisc
    /\ started = [p \in Paths |-> IF streams[p].open THEN 1 ELSE 0]
    /\ scans = NoScans
    /\ pending = [p \in Paths |-> NoPending]
    /\ dropped = {}
    /\ res = NoRes
    /\ conns = NoConns
    /\ shared = NoShared
    /\ tui = NoTui

(***************************************************************************)
(* Environment: a writer appends a chunk to a file; a file is created in   *)
(* the log directory.                                                      *)
(***************************************************************************)
Write(p, chunk) ==
    /\ written < MaxWrites
    /\ p \in exists
    /\ file' = [file EXCEPT ![p] = @ \o chunk]
    /\ written' = written + 1
    /\ UNCHANGED <<streams, tailed, ctxDone, entries, detached, buffer,
                   drain, emitted, appended, qvars, xvars, yvars, cvars, zvars>>

Create(p) ==
    /\ p \notin exists
    /\ exists' = exists \cup {p}
    /\ UNCHANGED <<file, written, streams, tailed, ctxDone, entries, detached,
                   buffer, drain, emitted, appended, qvars,
                   tailOnly, unreadable, watching, globbed, display, toolOut, yvars, cvars, zvars>>

(***************************************************************************)
(* Manager.Tail with Manager.addFile and Manager.watchDirectory.  All      *)
(* sources share one log directory (as the streams AutoDiscover makes do), *)
(* so the glob of Tail returns every file that exists.                     *)
(***************************************************************************)
\* an addFile without the look-up of the path in m.streams
addFileUnchecked(strs, s, p) ==
    IF p \in unreadable THEN strs
    ELSE [strs EXCEPT ![p] =
             [NewStream(s) EXCEPT !.born = IF tailOnly THEN Len(file[p]) ELSE 0]]

\* addFile: nothing to do for a path that has a Stream; no Stream when
\* os.Open fails; else a new Stream whose goroutine is started
addFile(strs, s, p) ==
    IF strs[p].open THEN strs
    ELSE IF p \in unreadable THEN strs
    ELSE [strs EXCEPT ![p] =
             [NewStream(s) EXCEPT !.born = IF tailOnly THEN Len(file[p]) ELSE 0]]

\* does addFile return an error for p
addFileFails(strs, p) == ~strs[p].open /\ p \in unreadable

\* position of a path in the sorted result of filepath.Glob
Rank(p) == CASE p = "a.log" -> 1 [] p = "b.log" -> 2 [] OTHER -> 3

\* the matches the loop of Tail passes to addFile: it returns at the first
\* error
TailReaches(strs, s, matches) ==
    { p \in matches :
        /\ Matches(s, p)
        /\ \A q \in matches :
              Matches(s, q) /\ addFileFails(strs, q) => Rank(p) <= Rank(q) }

TailSource(s) ==
    /\ s \notin tailed
    /\ tailed' = tailed \cup {s}
    /\ globbed' = [globbed EXCEPT ![s] = exists]
    /\ streams' = [p \in Paths |->
                     IF p \in TailReaches(streams, s, exists)
                     THEN addFile(streams, s, p)[p] ELSE streams[p]]
    /\ watching' = IF exists = {} THEN watching \cup {s} ELSE watching
    /\ started' = [p \in Paths |->
                     started[p] + IF streams'[p] # streams[p] THEN 1 ELSE 0]
    /\ UNCHANGED <<file, written, ctxDone, entries, detached, buffer,
                   drain, emitted, appended, qvars,
                   tailOnly, exists, unreadable, display, toolOut, yvars, cvars,
                   scans, dvars, ovars>>

\* lines 121-127: a tick of the watcher of source s; errors of addFile are
\* dropped
WatcherTick(s) ==
    /\ s \in watching
    /\ streams' = [p \in Paths |->
                     IF p \in exists /\ Matches(s, p)
                     THEN addFile(streams, s, p)[p] ELSE streams[p]]
    /\ started' = [p \in Paths |->
                     started[p] + IF streams'[p] # streams[p] THEN 1 ELSE 0]
    /\ UNCHANGED <<file, written, tailed, ctxDone, entries, detached, buffer,
                   drain, emitted, appended, qvars, xvars, yvars, cvars, scans,
                   dvars, ovars>>

\* lines 119-120: the watcher of source s returns when the context is done
WatcherStop(s) ==
    /\ s \in watching
    /\ ctxDone
    /\ watching' = watching \ {s}
    /\ UNCHANGED <<file, written, streams, tailed, ctxDone, entries, detached,
                   buffer, drain, emitted, appended, qvars,
                   tailOnly, exists, unreadable, globbed, display, toolOut, yvars, cvars, zvars>>

(***************************************************************************)
(* Stream.read.                                                            *)
(***************************************************************************)
\* the goroutine returns: the deferred calls close Done and the file
Finished(st) == [st EXCEPT !.pc = "done", !.closed = TRUE]

\* lines 137-146: with tailOnly the cursor starts at the size the file has
\* when the goroutine runs its Seek(0, io.SeekEnd)
ReadStart(p) ==
    /\ streams[p].open /\ streams[p].pc = "start"
    /\ streams' = [streams EXCEPT ![p] =
           IF tailOnly /\ @.closed THEN Finished(@)
           ELSE [@ EXCEPT !.pc = "poll",
                          !.offset = IF tailOnly THEN Len(file[p]) ELSE 0]]
    /\ UNCHANGED <<file, written, tailed, ctxDone, entries, detached,
                   buffer, drain, emitted, appended, qvars,
                   xvars, yvars, cvars, zvars>>

\* a poll that starts again at the head of the file when it finds nothing new
ReadPollRewinds(p) ==
    /\ streams[p].open /\ streams[p].pc = "poll"
    /\ LET st == streams[p]
           fileSize == Len(file[p])
       IN  streams' = [streams EXCEPT ![p] =
               IF ctxDone \/ st.closed THEN Finished(st)
               ELSE IF st.offset < fileSize
                    THEN [st EXCEPT !.pc = "read", !.pos = st.offset, !.rbuf = <<>>]
                    ELSE [st EXCEPT !.offset = 0]]
    /\ UNCHANGED <<file, written, tailed, ctxDone, entries, detached,
                   buffer, drain, emitted, appended, qvars,
                   xvars, yvars, cvars, zvars>>

\* lines 148-162: the select on ctx.Done, the size check and the seek to offset
ReadPoll(p) ==
    /\ streams[p].open /\ streams[p].pc = "poll"
    /\ LET st == streams[p]
           fileSize == Len(file[p])
       IN  streams' = [streams EXCEPT ![p] =
               IF ctxDone \/ st.closed THEN Finished(st)
               ELSE IF st.offset < fileSize
                    THEN [st EXCEPT !.pc = "read", !.pos = st.offset, !.rbuf = <<>>]
                    ELSE st]
    /\ UNCHANGED <<file, written, tailed, ctxDone, entries, detached,
                   buffer, drain, emitted, appended, qvars,
                   xvars, yvars, cvars, zvars>>

\* LogEntry built at lines 172-179
MakeEntry(st, line, p) ==
    [Source |-> st.Name, Content |-> line, LineNumber |-> st.LineNumber + 1,
     File |-> p]

\* Stream.read whose select at lines 181-189 has no default case: the send
\* waits for room in the channel or for ctx.Done
ReadStringBlocking(p) ==
    /\ streams[p].open /\ streams[p].pc = "read"
    /\ LET st == streams[p]
           fill == FirstNL(st.rbuf, 1) = 0
           data == IF fill THEN st.rbuf \o SubSeq(file[p], st.pos + 1, Len(file[p]))
                   ELSE st.rbuf
           newPos == IF fill THEN Len(file[p]) ELSE st.pos
           k == FirstNL(data, 1)
           line == SubSeq(data, 1, k - 1)
           rest == SubSeq(data, k + 1, Len(data))
           entry == MakeEntry(st, line, p)
           next == [st EXCEPT !.pos = newPos, !.rbuf = rest,
                              !.LineNumber = st.LineNumber + 1]
       IN  IF fill /\ st.closed
           THEN \* the read of the closed file fails: return
                /\ streams' = [streams EXCEPT ![p] = Finished(st)]
                /\ UNCHANGED <<entries, detached, emitted>>
           ELSE IF k = 0
           THEN \* io.EOF: break, then newOffset = position of the handle
                /\ streams' = [streams EXCEPT ![p] =
                       [st EXCEPT !.pc = "poll", !.pos = newPos, !.rbuf = <<>>,
                                  !.offset = newPos]]
                /\ UNCHANGED <<entries, detached, emitted>>
           ELSE /\ emitted' = Append(emitted, entry)
                /\ \/ /\ Len(entries) < ChanCap
                      /\ entries' = Append(entries, entry)
                      /\ streams' = [streams EXCEPT ![p] = next]
                      /\ UNCHANGED detached
                   \/ /\ ctxDone
                      /\ streams' = [streams EXCEPT ![p] = Finished(next)]
                      /\ UNCHANGED <<entries, detached>>
    /\ UNCHANGED <<file, written, tailed, ctxDone, buffer, drain, appended, qvars,
                   xvars, yvars, cvars, zvars>>

\* lines 164-190: one reader.ReadString('\n') and, for a complete line, the
\* construction of the entry and the select that submits it.  ReadString
\* takes the line from the bytes it holds or reads the file up to its
\* current end; without a newline before the end it returns io.EOF and the
\* loop is left for the Seek(0, io.SeekCurrent) of line 191.
ReadString(p) ==
    /\ streams[p].open /\ streams[p].pc = "read"
    /\ LET st == streams[p]
           fill == FirstNL(st.rbuf, 1) = 0
           data == IF fill THEN st.rbuf \o SubSeq(file[p], st.pos + 1, Len(file[p]))
                   ELSE st.rbuf
           newPos == IF fill THEN Len(file[p]) ELSE st.pos
           k == FirstNL(data, 1)
           line == SubSeq(data, 1, k - 1)
           rest == SubSeq(data, k + 1, Len(data))
           entry == MakeEntry(st, line, p)
           next == [st EXCEPT !.pos = newPos, !.rbuf = rest,
                              !.LineNumber = st.LineNumber + 1]
       IN  IF fill /\ st.closed
           THEN \* the read of the closed file fails: return
                /\ streams' = [streams EXCEPT ![p] = Finished(st)]
                /\ UNCHANGED <<entries, detached, emitted>>
           ELSE IF k = 0
           THEN \* io.EOF: break, then newOffset = position of the handle
                /\ streams' = [streams EXCEPT ![p] =
                       [st EXCEPT !.pc = "poll", !.pos = newPos, !.rbuf = <<>>,
                                  !.offset = newPos]]
                /\ UNCHANGED <<entries, detached, emitted>>
           ELSE /\ emitted' = Append(emitted, entry)
                /\ \/ /\ Len(entries) < ChanCap
                      /\ entries' = Append(entries, entry)
                      /\ streams' = [streams EXCEPT ![p] = next]
                      /\ UNCHANGED detached
                   \/ /\ ctxDone
                      /\ streams' = [streams EXCEPT ![p] = Finished(next)]
                      /\ UNCHANGED <<entries, detached>>
                   \/ /\ Len(entries) >= ChanCap /\ ~ctxDone
                      /\ detached' = detached \cup {entry}
                      /\ streams' = [streams EXCEPT ![p] = next]
                      /\ UNCHANGED entries
    /\ UNCHANGED <<file, written, tailed, ctxDone, buffer, drain, appended, qvars,
                   xvars, yvars, cvars, zvars>>

\* a failure that ends every Stream of the source
ReadFailsStopsSource(p) ==
    /\ streams[p].open
    /\ streams[p].pc \in {"poll", "read"} \/ (streams[p].pc = "start" /\ tailOnly)
    /\ ~ctxDone /\ ~streams[p].closed
    /\ streams' = [q \in Paths |->
                     IF q = p
                     THEN [Finished(streams[p]) EXCEPT !.failedAt = Len(emitted)]
                     ELSE IF streams[q].open /\ streams[q].Name = streams[p].Name
                     THEN Finished(streams[q])
                     ELSE streams[q]]
    /\ UNCHANGED <<file, written, tailed, ctxDone, entries, detached,
                   buffer, drain, emitted, appended, qvars,
                   xvars, yvars, cvars, zvars>>

\* lines 142-145, 153-156, 159-161, 164-169 and 191-194: a Seek or a read of
\* the file of the Stream returns an error that is not io.EOF, and the
\* goroutine returns; its deferred calls close Done and the file
ReadFails(p) ==
    /\ streams[p].open
    /\ streams[p].pc \in {"poll", "read"} \/ (streams[p].pc = "start" /\ tailOnly)
    /\ ~ctxDone /\ ~streams[p].closed
    /\ streams' = [streams EXCEPT ![p] =
                     [Finished(@) EXCEPT !.failedAt = Len(emitted)]]
    /\ UNCHANGED <<file, written, tailed, ctxDone, entries, detached,
                   buffer, drain, emitted, appended, qvars,
                   xvars, yvars, cvars, zvars>>

\* a detached goroutine that puts its entry into the buffer itself
DetachedSendAppends(e) ==
    /\ e \in detached
    /\ Len(entries) < ChanCap
    /\ buffer' = Append(buffer, e)
    /\ detached' = detached \ {e}
    /\ UNCHANGED <<file, written, streams, tailed, ctxDone, entries, drain,
                   emitted, appended, qvars,
                   xvars, yvars, cvars, zvars>>

\* lines 186-188: a detached goroutine completes its blocking send
DetachedSend(e) ==
    /\ e \in detached
    /\ Len(entries) < ChanCap
    /\ entries' = Append(entries, e)
    /\ detached' = detached \ {e}
    /\ UNCHANGED <<file, written, streams, tailed, ctxDone, buffer, drain,
                   emitted, appended, qvars,
                   xvars, yvars, cvars, zvars>>

(***************************************************************************)
(* Manager.Close: cancels the context and closes every file.               *)
(***************************************************************************)
Close ==
    /\ ~ctxDone
    /\ ctxDone' = TRUE
    /\ streams' = [p \in Paths |->
                     IF streams[p].open THEN [streams[p] EXCEPT !.closed = TRUE]
                     ELSE streams[p]]
    /\ UNCHANGED <<file, written, tailed, entries, detached, buffer, drain,
                   emitted, appended, qvars,
                   xvars, yvars, cvars, zvars>>

(***************************************************************************)
(* bufferMu, a sync.RWMutex.  The drain goroutine is its only writer and   *)
(* is inside Lock() while its pc is "lock"; the Search goroutine holds the *)
(* read side while its pc is "scan"; GetEntries holds it within one step.  *)
(* Lock() waits until no reader holds the lock, and RLock() waits while a  *)
(* Lock() call is pending or holds it (a blocked Lock call excludes new    *)
(* readers from acquiring the lock).                                       *)
(***************************************************************************)
\* Lock() that does not wait for the readers
CanLockDespiteReaders == TRUE

CanLock == search.g # "scan"

CanRLock == drain.pc # "lock"

(***************************************************************************)
(* Manager.AddEntry and the goroutine of Manager.StartBuffering.           *)
(***************************************************************************)
\* AddEntry with the slice taken from the wrong end: m.buffer[:1000]
AddEntryKeepsOldest(buf, entry) ==
    LET b == Append(buf, entry)
    IN  IF Len(b) > Capacity THEN SubSeq(b, 1, Capacity) ELSE b

\* the buffer after AddEntry(entry), lines 234-237
AddEntry(buf, entry) ==
    LET b == Append(buf, entry)
    IN  IF Len(b) > Capacity THEN SubSeq(b, Len(b) - Capacity + 1, Len(b)) ELSE b

StartBuffering ==
    /\ drain.pc = "off"
    /\ drain' = [drain EXCEPT !.pc = "recv"]
    /\ UNCHANGED <<file, written, streams, tailed, ctxDone, entries,
                   detached, buffer, emitted, appended, qvars,
                   xvars, yvars, cvars, zvars>>

\* for entry := range m.entries
DrainRecv ==
    /\ drain.pc = "recv"
    /\ entries # <<>>
    /\ drain' = [pc |-> "lock", entry |-> Head(entries)]
    /\ entries' = Tail(entries)
    /\ UNCHANGED <<file, written, streams, tailed, ctxDone, detached,
                   buffer, emitted, appended, qvars,
                   xvars, yvars, cvars, zvars>>

\* m.bufferMu.Lock() ... Unlock(): the body of AddEntry, once no reader holds
\* the lock
DrainAddEntry ==
    /\ drain.pc = "lock"
    /\ CanLock
    /\ buffer' = AddEntry(buffer, drain.entry)
    /\ appended' = Append(appended, drain.entry)
    /\ drain' = [pc |-> "recv", entry |-> NoEntry]
    /\ UNCHANGED <<file, written, streams, tailed, ctxDone, entries,
                   detached, emitted, qvars,
                   xvars, yvars, cvars, zvars>>

(***************************************************************************)
(* regexp.Compile and Regexp.MatchString for patterns made of literal      *)
(* characters and groups: a pattern compiles iff its parentheses balance,  *)
(* and it matches a text iff the text contains its literal characters as a *)
(* substring.                                                              *)
(***************************************************************************)
RECURSIVE Balanced(_, _)
Balanced(p, d) ==
    IF p = <<>> THEN d = 0
    ELSE IF Head(p) = "(" THEN Balanced(Tail(p), d + 1)
    ELSE IF Head(p) = ")" THEN d > 0 /\ Balanced(Tail(p), d - 1)
    ELSE Balanced(Tail(p), d)

\* a compile step that accepts every pattern
CompilesAnything(pattern) == TRUE

Compiles(pattern) == Balanced(pattern, 0)

\* the flag (?i) is one element of a pattern, and is its first
Flagged(pattern) == pattern # <<>> /\ Head(pattern) = "(?i)"

Literal(pattern) == SelectSeq(pattern, LAMBDA c : c \notin {"(", ")", "(?i)"})

\* the lower-case form of a character; the upper-case letters of the
\* alphabet of the model are E, F, I, N, O and R
Fold(c) ==
    CASE c = "E" -> "e" [] c = "F" -> "f" [] c = "I" -> "i"
      [] c = "N" -> "n" [] c = "O" -> "o" [] c = "R" -> "r"
      [] OTHER -> c

FoldSeq(s) == [i \in 1..Len(s) |-> Fold(s[i])]

\* a match that never looks at the case of a letter
MatchStringAnyCase(pattern, text) ==
    LET lit == FoldSeq(Literal(pattern))
        txt == FoldSeq(text)
    IN  \E i \in 0..(Len(txt) - Len(lit)) : SubSeq(txt, i + 1, i + Len(lit)) = lit

\* Regexp.MatchString of a compiled pattern: the text holds the literal of
\* the pattern, letter for letter, or without regard to case under (?i)
MatchString(pattern, text) ==
    LET lit == IF Flagged(pattern) THEN FoldSeq(Literal(pattern)) ELSE Literal(pattern)
        txt == IF Flagged(pattern) THEN FoldSeq(text) ELSE text
    IN  \E i \in 0..(Len(txt) - Len(lit)) : SubSeq(txt, i + 1, i + Len(lit)) = lit

\* the arguments the clients pass
Patterns == { <<"E">>, <<"(">> }

SourceArgs == {"", "app", "db"}

GrepLimits == {0, 1}

ReadLimits == {-1, 0, 1, 2}

(***************************************************************************)
(* Manager.GetEntries, called by toolRead with the limit of the request.   *)
(***************************************************************************)
\* GetEntries without the comparison of entry.Source
GetEntriesAnySource(buf, source, limit) ==
    IF limit > 0 /\ Len(buf) > limit
    THEN SubSeq(buf, Len(buf) - limit + 1, Len(buf))
    ELSE buf

\* GetEntries with the slice taken from the wrong end: entries[:limit]
GetEntriesOldest(buf, source, limit) ==
    LET es == FilterSource(buf, source)
    IN  IF limit > 0 /\ Len(es) > limit THEN SubSeq(es, 1, limit) ELSE es

\* GetEntries that hands out the newest entry first
GetEntriesNewestFirst(buf, source, limit) ==
    LET es == FilterSource(buf, source)
        cut == IF limit > 0 /\ Len(es) > limit
               THEN SubSeq(es, Len(es) - limit + 1, Len(es))
               ELSE es
    IN  [i \in 1..Len(cut) |-> cut[Len(cut) + 1 - i]]

GetEntries(buf, source, limit) ==
    LET es == FilterSource(buf, source)
    IN  IF limit > 0 /\ Len(es) > limit
        THEN SubSeq(es, Len(es) - limit + 1, Len(es))
        ELSE es

\* the call holds the read lock from its first line to its return, so it is
\* one step; other readers do not keep it out
\* the history of a read: the result of the call before, if that was the
\* same call on the same buffer
Again(op, source, limit) ==
    IF /\ readOut.called /\ readOut.op = op
       /\ readOut.source = source /\ readOut.limit = limit
       /\ readOut.snap = buffer
    THEN [set |-> TRUE, result |-> readOut.result]
    ELSE NoAgain

\* a GetEntries that hands out entries and takes them off the buffer
ReadCallConsumes(source, limit) ==
    /\ CanRLock
    /\ readOut' = [called |-> TRUE, op |-> "GetEntries", source |-> source,
                   limit |-> limit,
                   result |-> GetEntries(buffer, source, limit), snap |-> buffer,
                   again |-> Again("GetEntries", source, limit)]
    /\ buffer' = SelectSeq(buffer, LAMBDA e : source # "" /\ e.Source # source)
    /\ UNCHANGED <<file, written, streams, tailed, ctxDone, entries, detached,
                   drain, emitted, appended, search, grep, reqCtxDone,
                   xvars, yvars, cvars, zvars>>

ReadCall(source, limit) ==
    /\ CanRLock
    /\ readOut' = [called |-> TRUE, op |-> "GetEntries", source |-> source,
                   limit |-> limit,
                   result |-> GetEntries(buffer, source, limit), snap |-> buffer,
                   again |-> Again("GetEntries", source, limit)]
    /\ UNCHANGED <<file, written, streams, tailed, ctxDone, entries, detached,
                   buffer, drain, emitted, appended, search, grep, reqCtxDone,
                   xvars, yvars, cvars, zvars>>

\* Manager.GetBuffer: a copy of the buffer made under the read lock
GetBufferCall ==
    /\ CanRLock
    /\ readOut' = [called |-> TRUE, op |-> "GetBuffer", source |-> "",
                   limit |-> 0, result |-> buffer, snap |-> buffer,
                   again |-> Again("GetBuffer", "", 0)]
    /\ UNCHANGED <<file, written, streams, tailed, ctxDone, entries, detached,
                   buffer, drain, emitted, appended, search, grep, reqCtxDone,
                   xvars, yvars, cvars, zvars>>

(***************************************************************************)
(* Manager.Search: the call itself, then the goroutine it starts.          *)
(***************************************************************************)
\* lines 241-246 and 267: what the call returns and starts
Search(pattern, source) ==
    IF Compiles(pattern)
    THEN [NoSearch EXCEPT !.status = "ok", !.pattern = pattern, !.source = source,
                          !.g = "rlock"]
    ELSE [NoSearch EXCEPT !.status = "error", !.pattern = pattern, !.source = source]

\* lines 629-668 of mcp.go: toolGrep calls Search and returns the error if
\* there is one
GrepCall(pattern, source, limit) ==
    /\ grep.pc \in {"idle", "returned"}
    /\ search.g \in {"none", "done"}
    /\ ~reqCtxDone
    /\ search' = Search(pattern, source)
    /\ grep' = IF search'.status = "error"
               THEN [pc |-> "returned", limit |-> limit, count |-> 0,
                     lines |-> <<>>, error |-> TRUE,
                     source |-> source, group |-> ""]
               ELSE [pc |-> "recv", limit |-> limit, count |-> 0,
                     lines |-> <<>>, error |-> FALSE,
                     source |-> source, group |-> ""]
    /\ UNCHANGED <<file, written, streams, tailed, ctxDone, entries, detached,
                   buffer, drain, emitted, appended, reqCtxDone, readOut,
                   xvars, yvars, cvars, zvars>>

\* lines 251-254: m.bufferMu.RLock() and the evaluation of range m.buffer
SearchRLock ==
    /\ search.g = "rlock"
    /\ CanRLock
    /\ search' = [search EXCEPT !.g = "scan", !.idx = 1, !.n = Len(buffer),
                                !.snap = buffer]
    /\ UNCHANGED <<file, written, streams, tailed, ctxDone, entries, detached,
                   buffer, drain, emitted, appended, grep, reqCtxDone, readOut,
                   xvars, yvars, cvars, zvars>>

\* lines 254-264: one iteration of the range loop
SearchStep ==
    /\ search.g = "scan"
    /\ search.idx <= search.n
    /\ LET entry == buffer[search.idx]
       IN  IF (search.source = "" \/ entry.Source = search.source)
              /\ MatchString(search.pattern, entry.Content)
           THEN \/ /\ Len(search.results) < ResultsCap
                   /\ search' = [search EXCEPT !.results = Append(@, entry),
                                               !.delivered = Append(@, entry),
                                               !.idx = @ + 1]
                \/ /\ reqCtxDone
                   /\ search' = [search EXCEPT !.g = "done", !.closed = TRUE,
                                               !.cancelled = TRUE]
           ELSE search' = [search EXCEPT !.idx = @ + 1]
    /\ UNCHANGED <<file, written, streams, tailed, ctxDone, entries, detached,
                   buffer, drain, emitted, appended, grep, reqCtxDone, readOut,
                   xvars, yvars, cvars, zvars>>

\* the loop is over: the deferred RUnlock and close(results)
SearchFinish ==
    /\ search.g = "scan"
    /\ search.idx > search.n
    /\ search' = [search EXCEPT !.g = "done", !.closed = TRUE]
    /\ UNCHANGED <<file, written, streams, tailed, ctxDone, entries, detached,
                   buffer, drain, emitted, appended, grep, reqCtxDone, readOut,
                   xvars, yvars, cvars, zvars>>

\* lines 672-689 of mcp.go: one iteration of for entry := range results
GrepRecv ==
    /\ grep.pc = "recv"
    /\ search.results # <<>>
    /\ LET entry == Head(search.results)
       IN  grep' = IF grep.count >= grep.limit
                   THEN [grep EXCEPT !.pc = "returned"]
                   ELSE IF MatchString(search.pattern, entry.Content)
                   THEN [grep EXCEPT !.lines = Append(@, entry), !.count = @ + 1]
                   ELSE grep
    /\ search' = [search EXCEPT !.results = Tail(@)]
    /\ UNCHANGED <<file, written, streams, tailed, ctxDone, entries, detached,
                   buffer, drain, emitted, appended, reqCtxDone, readOut,
                   xvars, yvars, cvars, zvars>>

\* the result channel is closed and empty: the range loop ends
GrepEnd ==
    /\ grep.pc = "recv"
    /\ search.results = <<>>
    /\ search.closed
    /\ grep' = [grep EXCEPT !.pc = "returned"]
    /\ UNCHANGED <<file, written, streams, tailed, ctxDone, entries, detached,
                   buffer, drain, emitted, appended, search, reqCtxDone, readOut,
                   xvars, yvars, cvars, zvars>>

\* the context of the requests is cancelled (main's cancel)
CancelRequests ==
    /\ ~reqCtxDone
    /\ reqCtxDone' = TRUE
    /\ UNCHANGED <<file, written, streams, tailed, ctxDone, entries, detached,
                   buffer, drain, emitted, appended, search, grep, readOut,
                   xvars, yvars, cvars, zvars>>

Next ==
    \/ \E p \in Paths : \E chunk \in Chunks(p) : Write(p, chunk)
    \/ \E s \in SourceNames : TailSource(s)
    \/ \E p \in Paths : ReadStart(p)
    \/ \E p \in Paths : ReadPoll(p)
    \/ \E p \in Paths : ReadString(p)
    \/ \E e \in detached : DetachedSend(e)
    \/ Close
    \/ StartBuffering
    \/ DrainRecv
    \/ DrainAddEntry

Spec == Init /\ [][Next]_vars

(***************************************************************************)
(* The query side is checked from the state in which the writers have      *)
(* written two lines to a.log, one to b.log and two to c.log, every Stream *)
(* has read its file to the end, and the drain goroutine has not run yet:  *)
(* the first ChanCap entries are in the channel and the others are held by *)
(* detached goroutines, which deliver them in any order.                   *)
(***************************************************************************)
LineE == <<"E">>

LineX == <<"x">>

Submitted ==
    << [Source |-> "app", Content |-> LineE, LineNumber |-> 1, File |-> "a.log"],
       [Source |-> "app", Content |-> LineE, LineNumber |-> 2, File |-> "a.log"],
       [Source |-> "app", Content |-> LineX, LineNumber |-> 1, File |-> "b.log"],
       [Source |-> "db", Content |-> LineE, LineNumber |-> 1, File |-> "c.log"],
       [Source |-> "db", Content |-> LineE, LineNumber |-> 2, File |-> "c.log"] >>

IdleStream(s, lines, size) ==
    [open |-> TRUE, Name |-> s, LineNumber |-> lines, pc |-> "poll",
     offset |-> size, pos |-> size, rbuf |-> <<>>, closed |-> FALSE,
     born |-> 0, failedAt |-> -1]

InitQuery ==
    /\ file = [p \in Paths |->
                 IF p = "a.log" THEN <<"E", NL, "E", NL>>
                 ELSE IF p = "b.log" THEN <<"x", NL>> ELSE <<"E", NL, "E", NL>>]
    /\ written = Len(Submitted)
    /\ streams = [p \in Paths |->
                    IF p = "a.log" THEN IdleStream("app", 2, 4)
                    ELSE IF p = "b.log" THEN IdleStream("app", 1, 2)
                    ELSE IdleStream("db", 2, 4)]
    /\ tailed = SourceNames
    /\ ctxDone = FALSE
    /\ entries = SubSeq(Submitted, 1, ChanCap)
    /\ detached = { Submitted[i] : i \in (ChanCap + 1)..Len(Submitted) }
    /\ buffer = <<>>
    /\ drain = [pc |-> "recv", entry |-> NoEntry]
    /\ emitted = Submitted
    /\ appended = <<>>
    /\ search = NoSearch
    /\ grep = NoGrep
    /\ reqCtxDone = FALSE
    /\ readOut = NoRead
    /\ tailOnly = FALSE
    /\ exists = Paths
    /\ unreadable = {}
    /\ watching = {}
    /\ globbed = [s \in SourceNames |-> Paths]
    /\ display = NoDisplay
    /\ toolOut = NoTool
    /\ logGroups = LogGroups
    /\ createOut = NoCreate
    /\ srv = "up"
    /\ cfgStreams = Configured
    /\ disc = NoDisc
    /\ started = [p \in Paths |-> IF streams[p].open THEN 1 ELSE 0]
    /\ scans = NoScans
    /\ pending = [p \in Paths |-> NoPending]
    /\ dropped = {}
    /\ res = NoRes
    /\ conns = NoConns
    /\ shared = NoShared
    /\ tui = NoTui

NextRead ==
    \/ \E e \in detached : DetachedSend(e)
    \/ DrainRecv
    \/ DrainAddEntry
    \/ \E source \in SourceArgs, limit \in ReadLimits : ReadCall(source, limit)

SpecRead == InitQuery /\ [][NextRead]_vars

NextSearch ==
    \/ \E e \in detached : DetachedSend(e)
    \/ DrainRecv
    \/ DrainAddEntry
    \/ \E pattern \in Patterns, source \in SourceArgs, limit \in GrepLimits :
          GrepCall(pattern, source, limit)
    \/ SearchRLock
    \/ SearchStep
    \/ SearchFinish
    \/ GrepRecv
    \/ GrepEnd
    \/ CancelRequests

SpecSearch == InitQuery /\ [][NextSearch]_vars

\* Every goroutine that can take a step is scheduled eventually.  Nothing
\* obliges a client to send a request or main to cancel the context.
FairSpecSearch ==
    /\ SpecSearch
    /\ WF_vars(\E e \in detached : DetachedSend(e))
    /\ WF_vars(DrainRecv)
    /\ WF_vars(DrainAddEntry)
    /\ WF_vars(SearchRLock)
    /\ WF_vars(SearchStep)
    /\ WF_vars(SearchFinish)
    /\ WF_vars(GrepRecv)
    /\ WF_vars(GrepEnd)

(***************************************************************************)
(* Properties.                                                             *)
(***************************************************************************)

\* C1: after any sequence of AddEntry calls the buffer holds at most Capacity
\* entries and is exactly the last min(n, Capacity) appended entries in
\* arrival order.
BufferIsLastAppended ==
    /\ Len(buffer) <= Capacity
    /\ buffer = LastN(appended, Capacity)

\* an append has evicted the oldest entry
EvictionHappened ==
    /\ Len(appended) > Capacity
    /\ Len(buffer) = Capacity
    /\ buffer[1] = appended[Len(appended) - Capacity + 1]

\* C2: for every source name the LineNumbers of the entries emitted with that
\* source are 1, 2, 3, ... in emission order, also for a source that matches
\* two files.
SequencePerSource ==
    \A s \in SourceNames :
        LET es == FilterSource(emitted, s)
        IN  \A i \in 1..Len(es) : es[i].LineNumber = i

\* every entry the drain goroutine has received from the channel, in order
Received ==
    IF drain.pc = "lock" THEN Append(appended, drain.entry) ELSE appended

\* C3: the drain goroutine receives the entries of one source in strictly
\* increasing sequence order, also after the channel was full.  Stated for
\* the entries of one Follower, which for a source with one file are the
\* entries of the source, so that the numbers two files of one source share
\* (C2) play no part.
ReceivedInSequenceOrder ==
    \A i, j \in 1..Len(Received) :
        (i < j /\ Received[i].File = Received[j].File)
            => Received[i].LineNumber < Received[j].LineNumber

\* C4: queries never block ingestion: every AddEntry the drain goroutine has
\* started eventually completes, also when the caller of a Search has
\* stopped receiving and the context is never cancelled.
AddEntryCompletes == (drain.pc = "lock") ~> (drain.pc = "recv")

\* the entries of buf that a Search for pattern in source is to deliver
Wanted(buf, pattern, source) ==
    SelectSeq(buf, LAMBDA e : /\ (source = "" \/ e.Source = source)
                              /\ MatchString(pattern, e.Content))

IsPrefix(a, b) == Len(a) <= Len(b) /\ a = SubSeq(b, 1, Len(a))

IsSuffix(a, b) == Len(a) <= Len(b) /\ a = SubSeq(b, Len(b) - Len(a) + 1, Len(b))

\* C5: what a Search delivers on its result channel is the filter applied
\* to the buffer as it was at one point in time (when the read lock was
\* taken): no append changes the buffer while the scan runs, the entries
\* delivered so far are the first matches of that buffer in its order, and a
\* scan that was not cancelled has delivered all of them.
SearchIsolated ==
    LET want == Wanted(search.snap, search.pattern, search.source)
    IN  /\ search.g = "scan" => buffer = search.snap
        /\ IsPrefix(search.delivered, want)
        /\ (search.g = "done" /\ ~search.cancelled) => search.delivered = want

\* a scan has delivered a match and holds the read lock while an append that
\* would evict an entry waits
ScanWithAppendWaiting ==
    /\ search.g = "scan"
    /\ drain.pc = "lock"
    /\ Len(search.delivered) >= 1
    /\ Len(buffer) = Capacity

\* the indices of the entries of snap that pass the source filter
MatchIdx(snap, source) ==
    { i \in 1..Len(snap) : source = "" \/ snap[i].Source = source }

\* r is s with some elements left out
Embeds(r, s) ==
    \E f \in [1..Len(r) -> 1..Len(s)] :
        /\ \A i, j \in 1..Len(r) : i < j => f[i] < f[j]
        /\ \A i \in 1..Len(r) : r[i] = s[f[i]]

\* C6: GetEntries(S, N) with a non-empty S returns no entry of another
\* source, with an empty S leaves no entry out because of its source, and
\* returns the entries in the order in which they were appended.
ReadFiltersBySource ==
    readOut.called =>
        /\ readOut.source # "" =>
              \A i \in 1..Len(readOut.result) :
                  readOut.result[i].Source = readOut.source
        /\ readOut.source = "" => IsSuffix(readOut.result, readOut.snap)
        /\ Embeds(readOut.result, readOut.snap)

\* a read for "app" that returned two entries and left out one of "db"
ReadSkippedOtherSource ==
    /\ readOut.called
    /\ readOut.source = "app"
    /\ Len(readOut.result) >= 2
    /\ \E i \in 1..Len(readOut.snap) :
          /\ readOut.snap[i].Source = "db"
          /\ i < Len(readOut.snap)

\* C7: for every integer limit N, also 0 and negative N, a read returns at
\* most N entries (for N <= 0 that is no entry, as no read returns fewer).
ReadAtMostLimit ==
    readOut.called =>
        Len(readOut.result) <= (IF readOut.limit > 0 THEN readOut.limit ELSE 0)

\* C8: a read with limit > 0 returns exactly the newest limit entries that
\* pass the source filter (all of them if fewer pass), oldest first.
ReadReturnsNewest ==
    (readOut.called /\ readOut.limit > 0) =>
        LET I == MatchIdx(readOut.snap, readOut.source)
            k == IF Cardinality(I) < readOut.limit THEN Cardinality(I)
                 ELSE readOut.limit
            J == { i \in I : Cardinality({ j \in I : j > i }) < k }
            Nth(n) == CHOOSE i \in J : Cardinality({ j \in J : j < i }) = n - 1
        IN  /\ Len(readOut.result) = k
            /\ \A n \in 1..k : readOut.result[n] = readOut.snap[Nth(n)]

\* a read whose limit cut off older matching entries
ReadCutToLimit ==
    /\ readOut.called
    /\ readOut.limit > 0
    /\ Cardinality(MatchIdx(readOut.snap, readOut.source)) > readOut.limit
    /\ Len(readOut.result) >= 2

\* the place of entry e in the buffer that the last read saw
Pos(e) == CHOOSE i \in 1..Len(readOut.snap) : readOut.snap[i] = e

Newest(I) == CHOOSE i \in I : \A j \in I : j <= i

\* C9 as stated: a read returns its entries most-recent-first: the first
\* element is the most recently appended matching entry and each following
\* element was appended earlier than the one before it.
ReadNewestFirst ==
    (readOut.called /\ readOut.result # <<>>) =>
        /\ readOut.result[1] =
              readOut.snap[Newest(MatchIdx(readOut.snap, readOut.source))]
        /\ \A n \in 1..(Len(readOut.result) - 1) :
              Pos(readOut.result[n + 1]) < Pos(readOut.result[n])

\* C9 as amended: a read returns its entries oldest-first: the last element
\* is the most recently appended matching entry and each following element
\* was appended later than the one before it.
ReadOldestFirst ==
    (readOut.called /\ readOut.result # <<>>) =>
        /\ readOut.result[Len(readOut.result)] =
              readOut.snap[Newest(MatchIdx(readOut.snap, readOut.source))]
        /\ \A n \in 1..(Len(readOut.result) - 1) :
              Pos(readOut.result[n]) < Pos(readOut.result[n + 1])

\* a read that returned entries appended at different times
ReadReturnedSeveral ==
    /\ readOut.called
    /\ Len(readOut.result) >= 2
    /\ readOut.result[1] # readOut.result[2]

\* the pattern of the scenario: an opening parenthesis alone
BadPattern == <<"(">>

\* C10: a Search with a pattern that does not compile returns an error and no
\* result channel, starts no scan goroutine, takes no lock and leaves the
\* buffer as it is.
InvalidPatternRejected ==
    /\ [](search.pattern = BadPattern =>
             /\ search.status = "error"
             /\ search.g = "none"
             /\ search.results = <<>> /\ ~search.closed
             /\ search.delivered = <<>>
             /\ grep.error /\ grep.pc = "returned" /\ grep.lines = <<>>)
    /\ [][(search'.pattern = BadPattern /\ search' # search) =>
             (buffer' = buffer /\ drain' = drain /\ appended' = appended)]_vars

\* a Search with the bad pattern was made when the buffer held entries
InvalidPatternTried ==
    /\ search.pattern = BadPattern
    /\ search.status = "error"
    /\ buffer # <<>>

(***************************************************************************)
(* A tail-only Manager (logdump -tail): NewManagerWithOptions(true).       *)
(***************************************************************************)
InitTail ==
    /\ file = [p \in Paths |-> <<>>]
    /\ written = 0
    /\ streams = [p \in Paths |-> NoStream]
    /\ tailed = {}
    /\ ctxDone = FALSE
    /\ entries = <<>>
    /\ detached = {}
    /\ buffer = <<>>
    /\ drain = [pc |-> "off", entry |-> NoEntry]
    /\ emitted = <<>>
    /\ appended = <<>>
    /\ search = NoSearch
    /\ grep = NoGrep
    /\ reqCtxDone = FALSE
    /\ readOut = NoRead
    /\ tailOnly = TRUE
    /\ exists = Paths
    /\ unreadable = {}
    /\ watching = {}
    /\ globbed = [s \in SourceNames |-> {}]
    /\ display = NoDisplay
    /\ toolOut = NoTool
    /\ logGroups = LogGroups
    /\ createOut = NoCreate
    /\ srv = "up"
    /\ cfgStreams = Configured
    /\ disc = NoDisc
    /\ started = [p \in Paths |-> IF streams[p].open THEN 1 ELSE 0]
    /\ scans = NoScans
    /\ pending = [p \in Paths |-> NoPending]
    /\ dropped = {}
    /\ res = NoRes
    /\ conns = NoConns
    /\ shared = NoShared
    /\ tui = NoTui

SpecTail == InitTail /\ [][Next]_vars

\* number of newlines in data
RECURSIVE CountNL(_)
CountNL(data) ==
    IF data = <<>> THEN 0
    ELSE (IF Head(data) = NL THEN 1 ELSE 0) + CountNL(Tail(data))

\* a Stream that has read its file to the end and waits for the next poll
CaughtUp(p) ==
    /\ streams[p].open
    /\ streams[p].pc = "poll"
    /\ streams[p].offset = Len(file[p])

\* C11: in tail-only mode a Stream that has read its file to the end has
\* emitted exactly as many entries as lines were written to the file after
\* addFile made the Stream: none of the lines the file had then, every line
\* written since.
TailEmitsExactlyNewLines ==
    tailOnly =>
        \A p \in Paths :
            CaughtUp(p) =>
                streams[p].LineNumber =
                    CountNL(file[p]) - CountNL(SubSeq(file[p], 1, streams[p].born))

(***************************************************************************)
(* A writer that appends a line in more than one write call: the writer of *)
(* c.log writes the line "Ex" as "E" and then "x\n".                       *)
(***************************************************************************)
Pieces(p) == IF p = "c.log" THEN { <<"E">>, <<"x", NL>> } ELSE {}

NextPartial ==
    \/ \E p \in Paths : \E chunk \in Pieces(p) : Write(p, chunk)
    \/ Next

SpecPartial == Init /\ [][NextPartial]_vars

\* the complete lines of data, without their newlines
RECURSIVE LinesOf(_)
LinesOf(data) ==
    LET k == FirstNL(data, 1)
    IN  IF k = 0 THEN <<>>
        ELSE <<SubSeq(data, 1, k - 1)>> \o LinesOf(SubSeq(data, k + 1, Len(data)))

\* C12: the Content of the n-th entry a Stream emits is the n-th complete
\* line of its file, all the bytes between two consecutive newlines (or from
\* the start of the file to the first newline): never only a suffix of it.
EntriesAreCompleteLines ==
    ~tailOnly =>
        \A i \in 1..Len(emitted) :
            LET e == emitted[i]
                lines == LinesOf(file[e.File])
            IN  /\ e.LineNumber <= Len(lines)
                /\ e.Content = lines[e.LineNumber]

(***************************************************************************)
(* Discovery: the log directory holds any of the files when the Manager is *)
(* made, others are created later, and os.Open fails for some of them.     *)
(* Nothing is written, so the Streams only poll.                           *)
(***************************************************************************)
InitDiscover ==
    /\ file = [p \in Paths |-> <<>>]
    /\ written = 0
    /\ streams = [p \in Paths |-> NoStream]
    /\ tailed = {}
    /\ ctxDone = FALSE
    /\ entries = <<>>
    /\ detached = {}
    /\ buffer = <<>>
    /\ drain = [pc |-> "off", entry |-> NoEntry]
    /\ emitted = <<>>
    /\ appended = <<>>
    /\ search = NoSearch
    /\ grep = NoGrep
    /\ reqCtxDone = FALSE
    /\ readOut = NoRead
    /\ tailOnly = FALSE
    /\ exists \in SUBSET Paths
    /\ unreadable \in SUBSET Paths
    /\ watching = {}
    /\ globbed = [s \in SourceNames |-> {}]
    /\ display = NoDisplay
    /\ toolOut = NoTool
    /\ logGroups = LogGroups
    /\ createOut = NoCreate
    /\ srv = "up"
    /\ cfgStreams = Configured
    /\ disc = NoDisc
    /\ started = [p \in Paths |-> IF streams[p].open THEN 1 ELSE 0]
    /\ scans = NoScans
    /\ pending = [p \in Paths |-> NoPending]
    /\ dropped = {}
    /\ res = NoRes
    /\ conns = NoConns
    /\ shared = NoShared
    /\ tui = NoTui

NextDiscover ==
    \/ \E p \in Paths : Create(p)
    \/ \E s \in SourceNames : TailSource(s)
    \/ \E s \in SourceNames : WatcherTick(s)
    \/ \E s \in SourceNames : WatcherStop(s)
    \/ \E p \in Paths : ReadStart(p)
    \/ \E p \in Paths : ReadPoll(p)
    \/ Close

SpecDiscover == InitDiscover /\ [][NextDiscover]_vars

\* the files Tail(s) found in the directory that source s matches
MatchedAtTail(s) == { p \in globbed[s] : Matches(s, p) }

\* C13: as long as the Manager is not closed, a watcher runs for every
\* source whose Tail call matched no file, whether the directory was empty
\* or held only files the source does not match.
WatcherRunsWhenNothingMatched ==
    \A s \in tailed :
        (MatchedAtTail(s) = {} /\ ~ctxDone) => s \in watching

\* C14: every file that Tail(s) matched and that can be opened has a
\* Stream, whatever happened to the other files Tail(s) matched.
OpenFailureIsIsolated ==
    \A s \in tailed :
        \A p \in MatchedAtTail(s) :
            p \notin unreadable => streams[p].open

(***************************************************************************)
(* Shutdown is checked from a state like that of InitQuery in which        *)
(* Tail(db) ran while the directory was still empty, so that a watcher     *)
(* runs for db, and in which StartBuffering has or has not been called.    *)
(***************************************************************************)
InitShutdown ==
    /\ file = [p \in Paths |->
                 IF p = "a.log" THEN <<"E", NL, "E", NL>>
                 ELSE IF p = "b.log" THEN <<"x", NL>> ELSE <<"E", NL, "E", NL>>]
    /\ written = Len(Submitted)
    /\ streams = [p \in Paths |->
                    IF p = "a.log" THEN IdleStream("app", 2, 4)
                    ELSE IF p = "b.log" THEN IdleStream("app", 1, 2)
                    ELSE IdleStream("db", 2, 4)]
    /\ tailed = SourceNames
    /\ ctxDone = FALSE
    /\ entries = SubSeq(Submitted, 1, ChanCap)
    /\ detached = { Submitted[i] : i \in (ChanCap + 1)..Len(Submitted) }
    /\ buffer = <<>>
    /\ drain \in { [pc |-> "off", entry |-> NoEntry],
                   [pc |-> "recv", entry |-> NoEntry] }
    /\ emitted = Submitted
    /\ appended = <<>>
    /\ search = NoSearch
    /\ grep = NoGrep
    /\ reqCtxDone = FALSE
    /\ readOut = NoRead
    /\ tailOnly = FALSE
    /\ exists = Paths
    /\ unreadable = {}
    /\ watching = {"db"}
    /\ globbed = [s \in SourceNames |-> IF s = "db" THEN {} ELSE Paths]
    /\ display = NoDisplay
    /\ toolOut = NoTool
    /\ logGroups = LogGroups
    /\ createOut = NoCreate
    /\ srv = "up"
    /\ cfgStreams = Configured
    /\ disc = NoDisc
    /\ started = [p \in Paths |-> IF streams[p].open THEN 1 ELSE 0]
    /\ scans = NoScans
    /\ pending = [p \in Paths |-> NoPending]
    /\ dropped = {}
    /\ res = NoRes
    /\ conns = NoConns
    /\ shared = NoShared
    /\ tui = NoTui

NextShutdown ==
    \/ Close
    \/ \E p \in Paths : ReadPoll(p)
    \/ \E s \in SourceNames : WatcherTick(s)
    \/ \E s \in SourceNames : WatcherStop(s)
    \/ \E e \in detached : DetachedSend(e)
    \/ DrainRecv
    \/ DrainAddEntry

SpecShutdown == InitShutdown /\ [][NextShutdown]_vars

\* Every goroutine that can take a step is scheduled eventually.  Nothing
\* obliges the program to call Close.
FairSpecShutdown ==
    /\ SpecShutdown
    /\ \A p \in Paths : WF_vars(ReadPoll(p))
    /\ \A s \in SourceNames : WF_vars(WatcherStop(s))
    /\ WF_vars(\E e \in detached : DetachedSend(e))
    /\ WF_vars(DrainRecv)
    /\ WF_vars(DrainAddEntry)

\* every goroutine of Stream.read has returned and closed its file
StreamsStopped ==
    \A p \in Paths :
        streams[p].open => (streams[p].pc = "done" /\ streams[p].closed)

\* C15: after Close, eventually every Stream goroutine has returned and
\* closed its file, no watcher runs, the drain goroutine neither receives
\* nor appends any more, and no detached goroutine is left in its send.
ShutdownReachesEveryTask ==
    ctxDone ~> (/\ StreamsStopped
                /\ watching = {}
                /\ drain.pc \notin {"recv", "lock"}
                /\ detached = {})

(***************************************************************************)
(* The live display: Model.updateLogs receives from Manager.Entries(), the *)
(* channel the goroutine of StartBuffering ranges over.  Checked from a    *)
(* state like that of InitQuery in which StartBuffering has or has not     *)
(* been called and in which the display either has been receiving since    *)
(* before the first entry was submitted (and found nothing yet) or has not *)
(* started to receive.                                                     *)
(***************************************************************************)
InitDisplay ==
    /\ file = [p \in Paths |->
                 IF p = "a.log" THEN <<"E", NL, "E", NL>>
                 ELSE IF p = "b.log" THEN <<"x", NL>> ELSE <<"E", NL, "E", NL>>]
    /\ written = Len(Submitted)
    /\ streams = [p \in Paths |->
                    IF p = "a.log" THEN IdleStream("app", 2, 4)
                    ELSE IF p = "b.log" THEN IdleStream("app", 1, 2)
                    ELSE IdleStream("db", 2, 4)]
    /\ tailed = SourceNames
    /\ ctxDone = FALSE
    /\ entries = SubSeq(Submitted, 1, ChanCap)
    /\ detached = { Submitted[i] : i \in (ChanCap + 1)..Len(Submitted) }
    /\ buffer = <<>>
    /\ drain \in { [pc |-> "off", entry |-> NoEntry],
                   [pc |-> "recv", entry |-> NoEntry] }
    /\ emitted = Submitted
    /\ appended = <<>>
    /\ search = NoSearch
    /\ grep = NoGrep
    /\ reqCtxDone = FALSE
    /\ readOut = NoRead
    /\ tailOnly = FALSE
    /\ exists = Paths
    /\ unreadable = {}
    /\ watching = {}
    /\ globbed = [s \in SourceNames |-> Paths]
    /\ display \in { NoDisplay, [NoDisplay EXCEPT !.on = TRUE] }
    /\ toolOut = NoTool
    /\ logGroups = LogGroups
    /\ createOut = NoCreate
    /\ srv = "up"
    /\ cfgStreams = Configured
    /\ disc = NoDisc
    /\ started = [p \in Paths |-> IF streams[p].open THEN 1 ELSE 0]
    /\ scans = NoScans
    /\ pending = [p \in Paths |-> NoPending]
    /\ dropped = {}
    /\ res = NoRes
    /\ conns = NoConns
    /\ shared = NoShared
    /\ tui = NoTui

\* the elements of a sequence
Range(s) == { s[i] : i \in 1..Len(s) }

\* Entries() that hands a new consumer the history buffer first
DisplaySubscribeReplays ==
    /\ ~display.on
    /\ display' = [on |-> TRUE, got |-> buffer, before |-> Range(emitted),
                   taken |-> Range(appended) \cup
                             (IF drain.pc = "lock" THEN {drain.entry} ELSE {})]
    /\ UNCHANGED <<file, written, streams, tailed, ctxDone, entries, detached,
                   buffer, drain, emitted, appended, qvars,
                   tailOnly, exists, unreadable, watching, globbed, toolOut, yvars, cvars, zvars>>

\* the display starts to receive from the channel Entries() returns
DisplaySubscribe ==
    /\ ~display.on
    /\ display' = [on |-> TRUE, got |-> <<>>, before |-> Range(emitted),
                   taken |-> Range(appended) \cup
                             (IF drain.pc = "lock" THEN {drain.entry} ELSE {})]
    /\ UNCHANGED <<file, written, streams, tailed, ctxDone, entries, detached,
                   buffer, drain, emitted, appended, qvars,
                   tailOnly, exists, unreadable, watching, globbed, toolOut, yvars, cvars, zvars>>

\* updateLogs that receives an entry and does not keep it
DisplayRecvDrops ==
    /\ display.on
    /\ entries # <<>>
    /\ entries' = Tail(entries)
    /\ UNCHANGED <<file, written, streams, tailed, ctxDone, detached,
                   buffer, drain, emitted, appended, qvars, xvars, yvars, cvars, zvars>>

\* updateLogs: the receive of its select, when an entry is in the channel
DisplayRecv ==
    /\ display.on
    /\ entries # <<>>
    /\ display' = [display EXCEPT !.got = Append(@, Head(entries))]
    /\ entries' = Tail(entries)
    /\ UNCHANGED <<file, written, streams, tailed, ctxDone, detached,
                   buffer, drain, emitted, appended, qvars,
                   tailOnly, exists, unreadable, watching, globbed, toolOut, yvars, cvars, zvars>>

NextDisplay ==
    \/ \E e \in detached : DetachedSend(e)
    \/ DrainRecv
    \/ DrainAddEntry
    \/ DisplaySubscribe
    \/ DisplayRecv

SpecDisplay == InitDisplay /\ [][NextDisplay]_vars

\* both consumers receive and nothing is left to deliver
BothReceivedAll ==
    /\ display.on
    /\ drain.pc = "recv"
    /\ entries = <<>>
    /\ detached = {}

NothingFromBeforeSubscribe ==
    \A i \in 1..Len(display.got) : display.got[i] \notin display.before

\* C19 as amended: the display receives no entry that a consumer had
\* received before the display started to receive, and no entry twice;
\* entries submitted before that are still in the channel or held by a
\* detached goroutine are delivered to it.
NothingReceivedIsReplayed ==
    /\ \A i \in 1..Len(display.got) : display.got[i] \notin display.taken
    /\ \A i, j \in 1..Len(display.got) :
          i # j => display.got[i] # display.got[j]

\* the display started after the drain goroutine had received entries, and
\* has received an entry that was submitted before it started
QueuedEntryDelivered ==
    /\ display.taken # {}
    /\ \E i \in 1..Len(display.got) : display.got[i] \in display.before

(***************************************************************************)
(* Ingestion with nobody receiving from the entries channel: no            *)
(* StartBuffering, no display.  The channel fills up and stays full.       *)
(***************************************************************************)
NextStall ==
    \/ \E p \in Paths : \E chunk \in Chunks(p) : Write(p, chunk)
    \/ \E s \in SourceNames : TailSource(s)
    \/ \E p \in Paths : ReadStart(p)
    \/ \E p \in Paths : ReadPoll(p)
    \/ \E p \in Paths : ReadString(p)
    \/ Close

SpecStall == Init /\ [][NextStall]_vars

\* The goroutine of a Stream is scheduled whenever it can take a step.
FairSpecStall ==
    /\ SpecStall
    /\ \A p \in Paths : WF_vars(ReadString(p))

\* the goroutine of the Stream of p is inside its ReadString loop
Reading(p) == streams[p].open /\ streams[p].pc = "read"

\* it is at the top of its outer loop, or has returned
LeftLoop(p) == streams[p].open /\ streams[p].pc \in {"poll", "done"}

\* C18: a Stream inside its read loop can always take its next step, also
\* with a full channel and nobody receiving; it leaves the loop for its next
\* poll (or returns, when the Manager is closed), and it leaves it with its
\* cursor advanced.
SendNeverStalls ==
    /\ [](\A p \in Paths : Reading(p) => ENABLED ReadString(p))
    /\ \A p \in Paths : Reading(p) ~> LeftLoop(p)
    /\ [][\A p \in Paths :
             (Reading(p) /\ streams'[p].pc = "poll") =>
                 streams'[p].offset > streams[p].offset]_vars

\* with the channel full and nobody receiving, a Stream has handed an entry
\* to a detached goroutine and has gone on to the end of its file
FullChannelPassed ==
    /\ Len(entries) = ChanCap
    /\ drain.pc = "off" /\ ~display.on
    /\ \E p \in Paths :
          /\ CaughtUp(p)
          /\ \E e \in detached : e.File = p

(***************************************************************************)
(* Queries with a group.  The pattern of a group is matched with the flag   *)
(* (?i).                                                                   *)
(***************************************************************************)
\* regexp.MustCompile("(?i)" + pattern).MatchString(text)
MatchStringFold(pattern, text) == MatchString(<<"(?i)">> \o pattern, text)

\* strings.Join(streams, ",")
Join(ss) ==
    IF ss = <<>> THEN ""
    ELSE IF Len(ss) = 1 THEN ss[1]
    ELSE IF ss = <<"app", "db">> THEN "app,db" ELSE "db,app"

\* lines 583-599 of mcp.go: GetEntries, then the pass over its result for a
\* group that exists and has a pattern
toolRead(buf, source, group, limit) ==
    LET es == GetEntries(buf, source, limit)
    IN  IF group # "" /\ group \in DOMAIN logGroups /\ logGroups[group].Pattern # <<>>
        THEN SelectSeq(es, LAMBDA e : MatchStringFold(logGroups[group].Pattern, e.Content))
        ELSE es

\* regexp.MustCompile panics on a pattern that does not compile, and nothing
\* in the repository recovers: under RunStdio the panic ends the process;
\* under RunWebsocket net/http recovers it in the goroutine of the
\* connection, which is closed by the deferred conn.Close.  No response is
\* written in either case.
MustCompilePanics(tool, source, group, limit) ==
    /\ toolOut' = [called |-> TRUE, tool |-> tool, source |-> source,
                   group |-> group, limit |-> limit, result |-> <<>>,
                   snap |-> buffer, answered |-> FALSE, error |-> FALSE,
                   pattern |-> logGroups[group].Pattern]
    /\ \E t \in Transports : srv' = IF t = "stdio" THEN "down" ELSE "up"

\* logdump_read: Server.toolRead.  It has no path that returns an error.
ToolReadCall(source, group, limit) ==
    /\ srv = "up"
    /\ CanRLock
    /\ IF /\ group # "" /\ group \in DOMAIN logGroups
          /\ logGroups[group].Pattern # <<>>
          /\ ~Compiles(logGroups[group].Pattern)
       THEN MustCompilePanics("read", source, group, limit)
       ELSE /\ toolOut' = [called |-> TRUE, tool |-> "read", source |-> source,
                           group |-> group, limit |-> limit,
                           result |-> toolRead(buffer, source, group, limit),
                           snap |-> buffer, answered |-> TRUE, error |-> FALSE,
                           pattern |-> IF group \in DOMAIN logGroups
                                       THEN logGroups[group].Pattern ELSE <<>>]
            /\ srv' = srv
    /\ UNCHANGED <<file, written, streams, tailed, ctxDone, entries, detached,
                   buffer, drain, emitted, appended, qvars,
                   tailOnly, exists, unreadable, watching, globbed, display,
                   logGroups, createOut, cvars, zvars>>

\* lines 649-659 of mcp.go: the source toolGrep passes to Search
searchSource(source, group) ==
    IF group # ""
    THEN (IF group \in DOMAIN logGroups THEN Join(logGroups[group].Streams) ELSE "")
    ELSE source

\* toolGrep called with a group
GrepGroupCall(pattern, source, group, limit) ==
    /\ grep.pc \in {"idle", "returned"}
    /\ search.g \in {"none", "done"}
    /\ ~reqCtxDone
    /\ search' = Search(pattern, searchSource(source, group))
    /\ grep' = IF search'.status = "error"
               THEN [pc |-> "returned", limit |-> limit, count |-> 0,
                     lines |-> <<>>, error |-> TRUE,
                     source |-> source, group |-> group]
               ELSE [pc |-> "recv", limit |-> limit, count |-> 0,
                     lines |-> <<>>, error |-> FALSE,
                     source |-> source, group |-> group]
    /\ UNCHANGED <<file, written, streams, tailed, ctxDone, entries, detached,
                   buffer, drain, emitted, appended, reqCtxDone, readOut,
                   xvars, yvars, cvars, zvars>>

(***************************************************************************)
(* The group queries are checked from the state in which the drain         *)
(* goroutine has appended the five entries of Submitted in their order.    *)
(***************************************************************************)
InitGroup ==
    /\ file = [p \in Paths |->
                 IF p = "a.log" THEN <<"E", NL, "E", NL>>
                 ELSE IF p = "b.log" THEN <<"x", NL>> ELSE <<"E", NL, "E", NL>>]
    /\ written = Len(Submitted)
    /\ streams = [p \in Paths |->
                    IF p = "a.log" THEN IdleStream("app", 2, 4)
                    ELSE IF p = "b.log" THEN IdleStream("app", 1, 2)
                    ELSE IdleStream("db", 2, 4)]
    /\ tailed = SourceNames
    /\ ctxDone = FALSE
    /\ entries = <<>>
    /\ detached = {}
    /\ buffer = LastN(Submitted, Capacity)
    /\ drain = [pc |-> "recv", entry |-> NoEntry]
    /\ emitted = Submitted
    /\ appended = Submitted
    /\ search = NoSearch
    /\ grep = NoGrep
    /\ reqCtxDone = FALSE
    /\ readOut = NoRead
    /\ tailOnly = FALSE
    /\ exists = Paths
    /\ unreadable = {}
    /\ watching = {}
    /\ globbed = [s \in SourceNames |-> Paths]
    /\ display = NoDisplay
    /\ toolOut = NoTool
    /\ logGroups = LogGroups
    /\ createOut = NoCreate
    /\ srv = "up"
    /\ cfgStreams = Configured
    /\ disc = NoDisc
    /\ started = [p \in Paths |-> IF streams[p].open THEN 1 ELSE 0]
    /\ scans = NoScans
    /\ pending = [p \in Paths |-> NoPending]
    /\ dropped = {}
    /\ res = NoRes
    /\ conns = NoConns
    /\ shared = NoShared
    /\ tui = NoTui

NextGroup ==
    \/ \E source \in SourceArgs, group \in GroupNames \cup {""},
          limit \in ReadLimits : ToolReadCall(source, group, limit)
    \/ \E pattern \in { <<"E">>, <<"x">> }, source \in SourceArgs,
          group \in GroupNames, limit \in {1, 3} :
             GrepGroupCall(pattern, source, group, limit)
    \/ SearchRLock
    \/ SearchStep
    \/ SearchFinish
    \/ GrepRecv
    \/ GrepEnd
    \/ CancelRequests

SpecGroup == InitGroup /\ [][NextGroup]_vars

\* is entry e of a source of group g, with a content the pattern of g matches
InGroup(e, g) ==
    /\ \E i \in 1..Len(LogGroups[g].Streams) : e.Source = LogGroups[g].Streams[i]
    /\ MatchStringFold(LogGroups[g].Pattern, e.Content)

\* the first n elements of s (all of s if it is shorter)
FirstN(s, n) == IF Len(s) <= n THEN s ELSE SubSeq(s, 1, n)

\* C20: a logdump_read with group G returns what the same read without the
\* group returns, restricted to the entries of the sources of G whose
\* content matches the pattern of G; a logdump_grep with group G that was
\* not cancelled returns, up to its limit, what the same search without the
\* group delivers, restricted in the same way.
GroupRestrictsBySourceAndPattern ==
    /\ (toolOut.called /\ toolOut.group # "") =>
          toolOut.result =
              SelectSeq(GetEntries(toolOut.snap, toolOut.source, toolOut.limit),
                        LAMBDA e : InGroup(e, toolOut.group))
    /\ (grep.pc = "returned" /\ grep.group # "" /\ ~grep.error /\ ~reqCtxDone) =>
          grep.lines =
              FirstN(SelectSeq(Wanted(search.snap, search.pattern, grep.source),
                               LAMBDA e : InGroup(e, grep.group)),
                     grep.limit)

(***************************************************************************)
(* Queries before, during and after Manager.Close, from the state in which *)
(* the buffer holds the entries of Submitted.                              *)
(***************************************************************************)
NextClosed ==
    \/ Close
    \/ \E source \in SourceArgs, limit \in ReadLimits : ReadCall(source, limit)
    \/ \E pattern \in Patterns, source \in SourceArgs, limit \in GrepLimits :
          GrepCall(pattern, source, limit)
    \/ SearchRLock
    \/ SearchStep
    \/ SearchFinish
    \/ GrepRecv
    \/ GrepEnd
    \/ CancelRequests

SpecClosed == InitGroup /\ [][NextClosed]_vars

\* C16: a GetEntries call made after Close returns no entries, and a Search
\* call made after Close returns an error; a Search in flight when Close is
\* called is not touched by it.
QueriesFailAfterClose ==
    /\ [][(ctxDone /\ readOut' # readOut) => readOut'.result = <<>>]_vars
    /\ [][(ctxDone /\ search'.g = "rlock" /\ search.g # "rlock") =>
             search'.status = "error"]_vars
    /\ [][(ctxDone' /\ ~ctxDone) => (search' = search /\ grep' = grep)]_vars

(***************************************************************************)
(* logdump_create_group and the queries that read a group after it         *)
(* (mcp.go: toolCreateGroup, toolRead, handleResourcesRead).  The streams   *)
(* argument is one string; it is modelled as the sequence of its pieces: a  *)
(* source name, "," or " ".                                                *)
(***************************************************************************)
\* strings.Split(s, ",") of a string that is not empty
RECURSIVE Split(_)
Split(s) ==
    IF \A i \in 1..Len(s) : s[i] # "," THEN << s >>
    ELSE LET i == CHOOSE i \in 1..Len(s) :
                     s[i] = "," /\ \A j \in 1..(i - 1) : s[j] # ","
         IN  << SubSeq(s, 1, i - 1) >> \o Split(SubSeq(s, i + 1, Len(s)))

\* strings.TrimSpace
RECURSIVE TrimSpace(_)
TrimSpace(s) ==
    IF s # <<>> /\ Head(s) = " " THEN TrimSpace(Tail(s))
    ELSE IF s # <<>> /\ s[Len(s)] = " " THEN TrimSpace(SubSeq(s, 1, Len(s) - 1))
    ELSE s

\* the string of a trimmed part; the parts of StreamsArgs hold one name at
\* most
Word(s) == IF s = <<>> THEN "" ELSE s[1]

\* lines 776-782 of mcp.go
SplitStreams(streamsStr) ==
    IF streamsStr = <<>> THEN <<>>
    ELSE LET parts == Split(streamsStr)
         IN  [i \in 1..Len(parts) |-> Word(TrimSpace(parts[i]))]

\* the arguments of logdump_create_group: "one" is a group of the
\* configuration, "three" is new; "(" does not compile
CreateNames == {"one", "three"}
CreatePatterns == { <<"x">>, <<"(">> }
CreateColors == {"", "blue"}
StreamsArgs == { <<>>, <<"app", ",", " ", "db">>, <<"db", ",">> }

\* the group toolCreateGroup stores
NewGroup(name, pattern, color, streamsStr) ==
    [Name |-> name, Pattern |-> pattern,
     Color |-> IF color = "" THEN "cyan" ELSE color,
     Streams |-> SplitStreams(streamsStr)]

\* s.logGroups[name] = g
Store(groups, name, g) ==
    [n \in DOMAIN groups \cup {name} |-> IF n = name THEN g ELSE groups[n]]

\* a map that keeps the group it has under the name
StoreIfAbsent(groups, name, g) ==
    [n \in DOMAIN groups \cup {name} |->
        IF n \in DOMAIN groups THEN groups[n] ELSE g]

\* a logdump_create_group that keeps the group it has under the name
ToolCreateGroupKeepsOld(name, pattern, color, streamsStr) ==
    /\ srv = "up"
    /\ logGroups' = StoreIfAbsent(logGroups, name,
                                  NewGroup(name, pattern, color, streamsStr))
    /\ createOut' = [called |-> TRUE, name |-> name, pattern |-> pattern,
                     color |-> color, streams |-> streamsStr]
    /\ UNCHANGED <<file, written, streams, tailed, ctxDone, entries, detached,
                   buffer, drain, emitted, appended, qvars, xvars, srv, cvars, zvars>>

\* logdump_create_group: Server.toolCreateGroup
ToolCreateGroup(name, pattern, color, streamsStr) ==
    /\ srv = "up"
    /\ logGroups' = Store(logGroups, name,
                          NewGroup(name, pattern, color, streamsStr))
    /\ createOut' = [called |-> TRUE, name |-> name, pattern |-> pattern,
                     color |-> color, streams |-> streamsStr]
    /\ UNCHANGED <<file, written, streams, tailed, ctxDone, entries, detached,
                   buffer, drain, emitted, appended, qvars, xvars, srv, cvars, zvars>>

\* lines 984-993 of mcp.go: the entries of the streams of the group whose
\* content the pattern of the group matches
groupLines(buf, g) ==
    SelectSeq(GetEntries(buf, "", 100),
              LAMBDA e : /\ \E i \in 1..Len(g.Streams) : e.Source = g.Streams[i]
                         /\ MatchStringFold(g.Pattern, e.Content))

\* resources/read of logdump://group/<group>: Server.handleResourcesRead
ResourceReadGroup(group) ==
    /\ srv = "up"
    /\ IF group \notin DOMAIN logGroups
       THEN /\ toolOut' = [called |-> TRUE, tool |-> "resource", source |-> "",
                           group |-> group, limit |-> 100, result |-> <<>>,
                           snap |-> buffer, answered |-> TRUE, error |-> TRUE,
                           pattern |-> <<>>]
            /\ srv' = srv
       ELSE IF ~Compiles(logGroups[group].Pattern)
       THEN MustCompilePanics("resource", "", group, 100)
       ELSE /\ CanRLock
            /\ toolOut' = [called |-> TRUE, tool |-> "resource", source |-> "",
                           group |-> group, limit |-> 100,
                           result |-> groupLines(buffer, logGroups[group]),
                           snap |-> buffer, answered |-> TRUE, error |-> FALSE,
                           pattern |-> logGroups[group].Pattern]
            /\ srv' = srv
    /\ UNCHANGED <<file, written, streams, tailed, ctxDone, entries, detached,
                   buffer, drain, emitted, appended, qvars,
                   tailOnly, exists, unreadable, watching, globbed, display,
                   logGroups, createOut, cvars, zvars>>

\* the group names the queries pass: "four" is never created
QueryGroups == {"one", "two", "three", "four"}

NextCreate ==
    \/ \E name \in CreateNames, pattern \in CreatePatterns,
          color \in CreateColors, streamsStr \in StreamsArgs :
             ToolCreateGroup(name, pattern, color, streamsStr)
    \/ \E source \in {"", "db"}, group \in QueryGroups, limit \in {-1, 3} :
          ToolReadCall(source, group, limit)
    \/ \E group \in QueryGroups : ResourceReadGroup(group)

SpecCreate == InitGroup /\ [][NextCreate]_vars

\* the source names of a streams argument, in their order
NamesOf(streamsStr) == SelectSeq(streamsStr, LAMBDA c : c \notin {",", " "})

MalformedGroupPatternIsAnError ==
    (toolOut.called /\ ~Compiles(toolOut.pattern)) =>
        /\ toolOut.answered /\ toolOut.error
        /\ srv = "up"

(***************************************************************************)
(* logdump_grep with its case_insensitive argument, over a buffer that     *)
(* holds "INFO x" and "ERRab" of source app and "y ERROR" of source db.     *)
(***************************************************************************)
ScenarioLines ==
    << <<"I", "N", "F", "O", " ", "x">>,
       <<"E", "R", "R", "a", "b">>,
       <<"y", " ", "E", "R", "R", "O", "R">> >>

ScenarioEntries ==
    << [Source |-> "app", Content |-> ScenarioLines[1], LineNumber |-> 1, File |-> "a.log"],
       [Source |-> "app", Content |-> ScenarioLines[2], LineNumber |-> 2, File |-> "a.log"],
       [Source |-> "db", Content |-> ScenarioLines[3], LineNumber |-> 1, File |-> "c.log"] >>

InitScenario ==
    /\ file = [p \in Paths |->
                 IF p = "a.log"
                 THEN ScenarioLines[1] \o <<NL>> \o ScenarioLines[2] \o <<NL>>
                 ELSE IF p = "b.log" THEN <<>>
                 ELSE ScenarioLines[3] \o <<NL>>]
    /\ written = Len(ScenarioEntries)
    /\ streams = [p \in Paths |->
                    IF p = "a.log" THEN IdleStream("app", 2, Len(file[p]))
                    ELSE IF p = "b.log" THEN IdleStream("app", 0, 0)
                    ELSE IdleStream("db", 1, Len(file[p]))]
    /\ tailed = SourceNames
    /\ ctxDone = FALSE
    /\ entries = <<>>
    /\ detached = {}
    /\ buffer = ScenarioEntries
    /\ drain = [pc |-> "recv", entry |-> NoEntry]
    /\ emitted = ScenarioEntries
    /\ appended = ScenarioEntries
    /\ search = NoSearch
    /\ grep = NoGrep
    /\ reqCtxDone = FALSE
    /\ readOut = NoRead
    /\ tailOnly = FALSE
    /\ exists = Paths
    /\ unreadable = {}
    /\ watching = {}
    /\ globbed = [s \in SourceNames |-> Paths]
    /\ display = NoDisplay
    /\ toolOut = NoTool
    /\ logGroups = LogGroups
    /\ createOut = NoCreate
    /\ srv = "up"
    /\ cfgStreams = Configured
    /\ disc = NoDisc
    /\ started = [p \in Paths |-> IF streams[p].open THEN 1 ELSE 0]
    /\ scans = NoScans
    /\ pending = [p \in Paths |-> NoPending]
    /\ dropped = {}
    /\ res = NoRes
    /\ conns = NoConns
    /\ shared = NoShared
    /\ tui = NoTui

\* lines 642-647 of mcp.go: fullPattern := flags + pattern
fullPattern(pattern, caseInsensitive) ==
    IF caseInsensitive THEN <<"(?i)">> \o pattern ELSE pattern

\* what the Search that has ended leaves to the history of the next one
Ended ==
    IF search.g = "done" /\ ~search.cancelled
    THEN [set |-> TRUE, pattern |-> search.pattern, source |-> search.source,
          snap |-> search.snap, delivered |-> search.delivered]
    ELSE NoPrev

\* logdump_grep: Server.toolGrep to the call of Manager.Search
ToolGrep(pattern, source, group, limit, caseInsensitive) ==
    /\ srv = "up"
    /\ grep.pc \in {"idle", "returned"}
    /\ search.g \in {"none", "done"}
    /\ ~reqCtxDone
    /\ search' = [Search(fullPattern(pattern, caseInsensitive),
                         searchSource(source, group))
                    EXCEPT !.prev = Ended]
    /\ grep' = IF search'.status = "error"
               THEN [pc |-> "returned", limit |-> limit, count |-> 0,
                     lines |-> <<>>, error |-> TRUE,
                     source |-> source, group |-> group]
               ELSE [pc |-> "recv", limit |-> limit, count |-> 0,
                     lines |-> <<>>, error |-> FALSE,
                     source |-> source, group |-> group]
    /\ UNCHANGED <<file, written, streams, tailed, ctxDone, entries, detached,
                   buffer, drain, emitted, appended, reqCtxDone, readOut,
                   xvars, yvars, cvars, zvars>>

ScenarioPatterns == { <<"E", "R", "R">>, <<"e", "r", "r">> }

NextScenario ==
    \/ \E pattern \in ScenarioPatterns, source \in SourceArgs, limit \in {1, 3},
          caseInsensitive \in BOOLEAN :
             ToolGrep(pattern, source, "", limit, caseInsensitive)
    \/ SearchRLock
    \/ SearchStep
    \/ SearchFinish
    \/ GrepRecv
    \/ GrepEnd
    \/ CancelRequests

SpecScenario == InitScenario /\ [][NextScenario]_vars

\* the entries of buf with the given indices, in the order of buf
Pick(buf, idx) ==
    LET RECURSIVE P(_)
        P(i) == IF i > Len(buf) THEN <<>>
                ELSE (IF i \in idx THEN <<buf[i]>> ELSE <<>>) \o P(i + 1)
    IN  P(1)

\* the indices of the entries of the scenario that hold the letters ERR
HoldERR == {2, 3}

\* C23: a Search that ran to its end without being cancelled has delivered
\* the entries of the buffer that pass the source filter and whose content
\* matches, each once, in the order of the buffer: "ERR" finds "ERRab" and
\* "y ERROR"; "err" finds nothing unless case_insensitive is set, and then
\* finds the same two; and a Search that repeats the one before it on the
\* same buffer has delivered the same sequence.
SearchDeliversExactMatches ==
    (search.g = "done" /\ ~search.cancelled) =>
        LET sensitive == ~Flagged(search.pattern)
            lower == Literal(search.pattern) = <<"e", "r", "r">>
            content == IF sensitive /\ lower THEN {} ELSE HoldERR
            passes == { i \in 1..Len(search.snap) :
                           search.source = "" \/ search.snap[i].Source = search.source }
        IN  /\ search.snap = buffer
            /\ search.delivered = Pick(search.snap, content \cap passes)
            /\ (/\ search.prev.set
                /\ search.prev.pattern = search.pattern
                /\ search.prev.source = search.source
                /\ search.prev.snap = search.snap) =>
                    search.delivered = search.prev.delivered

\* the search for "ERR" was repeated and delivered "ERRab" and "y ERROR"
\* both times
SearchRepeated ==
    /\ search.g = "done" /\ ~search.cancelled
    /\ search.pattern = <<"E", "R", "R">> /\ search.source = ""
    /\ search.prev.set
    /\ search.prev.pattern = search.pattern /\ search.prev.source = search.source
    /\ search.delivered = <<ScenarioEntries[2], ScenarioEntries[3]>>
    /\ grep.pc = "returned" /\ grep.lines = search.delivered

(***************************************************************************)
(* Config.AutoDiscover (internal/config/config.go), which main calls once  *)
(* after the configuration was loaded.                                     *)
(***************************************************************************)
\* the names a log directory may hold, in the lexical order in which
\* filepath.Glob returns them
DirNames ==
    << <<"app", ".log">>, <<"app", ".txt">>, <<"db", ".log">>,
       <<"notes", ".md">>, <<"web", ".log">> >>

\* filepath.Glob(filepath.Join(logDir, "*" + ext))
Glob(files, ext) == SelectSeq(DirNames, LAMBDA f : f \in files /\ f[2] = ext)

\* base[:len(base)-len(filepath.Ext(base))]
Stem(base) == base[1]

streamColors == <<"cyan", "green", "yellow", "magenta", "blue", "red">>

\* the set existingStreams of line 162
Names(ss) == { ss[i].Name : i \in 1..Len(ss) }

\* a test that skips the excluded names only
SkipsExcludedOnly(name, exclude, existingStreams) == name \in exclude

\* line 172: exclude[name] || existingStreams[name]
Skips(name, exclude, existingStreams) ==
    name \in exclude \/ name \in existingStreams

\* lines 167-185: the loop over the files; colorIdx is carried along
RECURSIVE discover(_, _, _, _, _)
discover(ss, files, exclude, existingStreams, colorIdx) ==
    IF files = <<>> THEN ss
    ELSE LET base == Head(files)
             name == Stem(base)
         IN  IF Skips(name, exclude, existingStreams)
             THEN discover(ss, Tail(files), exclude, existingStreams, colorIdx)
             ELSE discover(Append(ss, [Name |-> name, Path |-> "logDir",
                                       Patterns |-> << base >>,
                                       Color |-> streamColors[(colorIdx % Len(streamColors)) + 1]]),
                           Tail(files), exclude, existingStreams, colorIdx + 1)

AutoDiscover ==
    /\ ~disc.called
    /\ cfgStreams' =
          IF ~disc.dirExists THEN cfgStreams
          ELSE discover(cfgStreams,
                        Glob(disc.files, ".log") \o Glob(disc.files, ".txt"),
                        disc.exclude, Names(cfgStreams), Len(cfgStreams))
    /\ disc' = [disc EXCEPT !.called = TRUE, !.before = cfgStreams]
    /\ UNCHANGED <<file, written, streams, tailed, ctxDone, entries, detached,
                   buffer, drain, emitted, appended, qvars, xvars, yvars, zvars>>

\* the names -exclude may give
ExcludeNames == {"db", "web"}

\* main before AutoDiscover: the configuration file named none, one or two
\* streams; the log directory is missing or holds any of DirNames
InitAuto ==
    /\ file = [p \in Paths |-> <<>>]
    /\ written = 0
    /\ streams = [p \in Paths |-> NoStream]
    /\ tailed = {}
    /\ ctxDone = FALSE
    /\ entries = <<>>
    /\ detached = {}
    /\ buffer = <<>>
    /\ drain = [pc |-> "off", entry |-> NoEntry]
    /\ emitted = <<>>
    /\ appended = <<>>
    /\ search = NoSearch
    /\ grep = NoGrep
    /\ reqCtxDone = FALSE
    /\ readOut = NoRead
    /\ tailOnly = FALSE
    /\ exists = Paths
    /\ unreadable = {}
    /\ watching = {}
    /\ globbed = [s \in SourceNames |-> {}]
    /\ display = NoDisplay
    /\ toolOut = NoTool
    /\ logGroups = LogGroups
    /\ createOut = NoCreate
    /\ srv = "up"
    /\ cfgStreams \in { SubSeq(Configured, 1, n) : n \in 0..Len(Configured) }
    /\ \E dirExists \in BOOLEAN,
          files \in SUBSET { DirNames[i] : i \in 1..Len(DirNames) },
          exclude \in SUBSET ExcludeNames :
             /\ (~dirExists => files = {})
             /\ disc = [NoDisc EXCEPT !.dirExists = dirExists, !.files = files,
                                      !.exclude = exclude]
    /\ started = [p \in Paths |-> IF streams[p].open THEN 1 ELSE 0]
    /\ scans = NoScans
    /\ pending = [p \in Paths |-> NoPending]
    /\ dropped = {}
    /\ res = NoRes
    /\ conns = NoConns
    /\ shared = NoShared
    /\ tui = NoTui

NextAuto == AutoDiscover

SpecAuto == InitAuto /\ [][NextAuto]_vars

\* the streams AutoDiscover appended
Discovered == SubSeq(cfgStreams, Len(disc.before) + 1, Len(cfgStreams))

\* C24: after AutoDiscover the streams that were configured are the first
\* streams of the configuration, as they were; no stream that was added has
\* a name of -exclude or the name of a stream that was configured; every
\* stream that was added has one file of the log directory as its only
\* pattern and that file's name without the extension as its name, and no
\* two of them have the same file.
AutoDiscoverAddsOnlyNewNames ==
    disc.called =>
        /\ IsPrefix(disc.before, cfgStreams)
        /\ \A i \in 1..Len(Discovered) :
              /\ Discovered[i].Name \notin disc.exclude
              /\ \A j \in 1..Len(disc.before) :
                    Discovered[i].Name # disc.before[j].Name
              /\ \E f \in disc.files :
                    /\ Discovered[i].Patterns = << f >>
                    /\ Discovered[i].Name = f[1]
        /\ \A i, j \in 1..Len(Discovered) :
              i # j => Discovered[i].Patterns # Discovered[j].Patterns

\* AutoDiscover has added a stream and has passed over one file for the
\* name of a configured stream and over another for a name of -exclude
DiscoveredAndSkipped ==
    /\ disc.called
    /\ Len(Discovered) >= 1
    /\ \E f \in disc.files :
          f[2] \in {".log", ".txt"} /\ f[1] \in Names(disc.before)
    /\ \E f \in disc.files :
          f[2] \in {".log", ".txt"} /\ f[1] \in disc.exclude
                                   /\ f[1] \notin Names(disc.before)

\* the Content of the entries emitted for file p, in emission order
EmittedOf(p) ==
    LET es == SelectSeq(emitted, LAMBDA e : e.File = p)
    IN  [i \in 1..Len(es) |-> es[i].Content]

\* C25: a Stream that waits for its next poll has its cursor at the start of
\* the file or right after a newline, and has emitted the lines of the file
\* up to the cursor, each once: the bytes of a line whose newline was not
\* written yet are not behind the cursor.
CursorAfterLastNewline ==
    ~tailOnly =>
        \A p \in Paths :
            (streams[p].open /\ streams[p].pc = "poll") =>
                /\ streams[p].offset = 0 \/ file[p][streams[p].offset] = NL
                /\ EmittedOf(p) = LinesOf(SubSeq(file[p], 1, streams[p].offset))

\* the Search goroutine holds the read lock and is at an entry of its range
\* loop: it is to evaluate the pattern against the entry, or has evaluated it
\* and is to send the entry on its result channel
ScanningUnderLock == search.g = "scan" /\ search.idx <= search.n

\* C26: the buffer lock is held for one append or one copy only: the Search
\* goroutine never holds the read lock while it evaluates the pattern
\* against an entry or waits to send a match.
LockOnlyForAppendOrCopy == ~ScanningUnderLock

\* the Search goroutine holds the read lock and waits to send a match on its
\* result channel, which is full
BlockedInSend ==
    /\ search.g = "scan" /\ search.idx <= search.n
    /\ Len(search.results) = ResultsCap
    /\ (search.source = "" \/ buffer[search.idx].Source = search.source)
    /\ MatchString(search.pattern, buffer[search.idx].Content)

\* C27: reads and searches do not block each other: while a Search goroutine
\* holds the read lock and waits for its caller to receive, also with an
\* append waiting for the write lock behind it, a GetEntries call can take
\* the read lock and return.
ReadsNeverBlockOnReads ==
    BlockedInSend =>
        ENABLED (\E source \in SourceArgs, limit \in ReadLimits :
                    ReadCall(source, limit))

\* C28: a file that matches the patterns of a source and appeared after
\* Tail ran for the source gets a Stream: as long as it has none (and can be
\* opened, and the Manager is not closed) the watcher of the source is
\* running, also for a source whose Tail found files.  Without the watcher
\* nothing calls addFile for the source again.
NewFilesGetFollower ==
    \A s \in tailed : \A p \in exists :
        (/\ Matches(s, p)
         /\ p \notin globbed[s]
         /\ p \notin unreadable
         /\ ~streams[p].open
         /\ ~ctxDone) => s \in watching

(***************************************************************************)
(* Ingestion with a Stream whose Seek or read fails, from the state in     *)
(* which runMCPServer has started the drain goroutine, Tail has run for    *)
(* every source and every Stream waits for its first poll of an empty file.*)
(* One Seek or read fails in a run, in any Stream and at any of its steps; *)
(* the Manager is not closed.                                              *)
(***************************************************************************)
InitFail ==
    /\ file = [p \in Paths |-> <<>>]
    /\ written = 0
    /\ streams = [p \in Paths |->
                    IdleStream(IF p = "c.log" THEN "db" ELSE "app", 0, 0)]
    /\ tailed = SourceNames
    /\ ctxDone = FALSE
    /\ entries = <<>>
    /\ detached = {}
    /\ buffer = <<>>
    /\ drain = [pc |-> "recv", entry |-> NoEntry]
    /\ emitted = <<>>
    /\ appended = <<>>
    /\ search = NoSearch
    /\ grep = NoGrep
    /\ reqCtxDone = FALSE
    /\ readOut = NoRead
    /\ tailOnly = FALSE
    /\ exists = Paths
    /\ unreadable = {}
    /\ watching = {}
    /\ globbed = [s \in SourceNames |-> Paths]
    /\ display = NoDisplay
    /\ toolOut = NoTool
    /\ logGroups = LogGroups
    /\ createOut = NoCreate
    /\ srv = "up"
    /\ cfgStreams = Configured
    /\ disc = NoDisc
    /\ started = [p \in Paths |-> IF streams[p].open THEN 1 ELSE 0]
    /\ scans = NoScans
    /\ pending = [p \in Paths |-> NoPending]
    /\ dropped = {}
    /\ res = NoRes
    /\ conns = NoConns
    /\ shared = NoShared
    /\ tui = NoTui

NoFailureYet == \A q \in Paths : streams[q].open => streams[q].failedAt = -1

NextFail ==
    \/ \E p \in Paths : \E chunk \in Chunks(p) : Write(p, chunk)
    \/ \E p \in Paths : ReadPoll(p)
    \/ \E p \in Paths : ReadString(p)
    \/ \E p \in Paths : NoFailureYet /\ ReadFails(p)
    \/ \E e \in detached : DetachedSend(e)
    \/ DrainRecv
    \/ DrainAddEntry

SpecFail == InitFail /\ [][NextFail]_vars

\* has a Seek or a read of the Stream of p failed
Failed(p) == streams[p].open /\ streams[p].failedAt >= 0

\* C29: a Seek or read failure ends the Stream it happens in, with Done
\* closed and the file closed, and nothing else.  The step of the failure
\* changes no other Stream, neither the channel nor the detached sends, the
\* drain goroutine, the buffer or the context; a Stream has returned only if
\* it failed itself or the Manager was closed; every other Stream can take
\* its next step.
FailureEndsOnlyThatFollower ==
    /\ [](\A p \in Paths :
            /\ Failed(p) => streams[p].pc = "done" /\ streams[p].closed
            /\ (streams[p].open /\ streams[p].pc = "done") => (ctxDone \/ Failed(p))
            /\ (streams[p].open /\ streams[p].pc # "done") =>
                  ENABLED (ReadStart(p) \/ ReadPoll(p) \/ ReadString(p)))
    /\ [][\A p \in Paths :
            (streams[p].open /\ ~Failed(p) /\ streams'[p].open /\ Failed(p)') =>
                /\ \A q \in Paths \ {p} : streams'[q] = streams[q]
                /\ UNCHANGED <<ctxDone, entries, detached, buffer, drain,
                               emitted, appended, tailed, watching>>]_vars

\* after the Stream of one file failed, the Stream of another file has
\* emitted an entry and the drain goroutine has appended it to the buffer
OtherStreamEmittedAfterFailure ==
    \E p \in Paths :
        /\ Failed(p)
        /\ ~ctxDone
        /\ \E i \in 1..Len(emitted) :
              /\ i > streams[p].failedAt
              /\ emitted[i].File # p
              /\ \E j \in 1..Len(buffer) : buffer[j] = emitted[i]

\* C30: the cursor of a Stream never goes back, and it is never beyond the
\* end of its file: no step lowers the offset of a Stream, and the offset is
\* at most the size the file has when it is set (the file only grows, so it
\* is at most the size of the file ever after).
CursorMonotoneWithinFile ==
    /\ [](\A p \in Paths : streams[p].open => streams[p].offset <= Len(file[p]))
    /\ [][\A p \in Paths :
            (streams[p].open /\ streams'[p].open) =>
                /\ streams'[p].offset >= streams[p].offset
                /\ streams'[p].offset # streams[p].offset =>
                      streams'[p].offset <= Len(file'[p])]_vars

\* a tail-only Stream started with its cursor at the end of a file that was
\* not empty, and has moved it forward since
CursorSetTwice ==
    /\ tailOnly
    /\ \E p \in Paths :
          /\ streams[p].open /\ streams[p].pc = "poll"
          /\ streams[p].born > 0
          /\ streams[p].offset > streams[p].born

(***************************************************************************)
(* GetEntries and GetBuffer called again and again while the drain         *)
(* goroutine appends.                                                      *)
(***************************************************************************)
NextIdem ==
    \/ NextRead
    \/ GetBufferCall

SpecIdem == InitQuery /\ [][NextIdem]_vars

toolReadTextJoined(es) == IF Len(es) = 0 THEN "" ELSE "lines"

\* lines 610-613 of mcp.go: the joined lines, or the text for no entries
toolReadText(es) == IF Len(es) = 0 THEN "No log entries found" ELSE "lines"

\* lines 691-694 of mcp.go: the matches, or the text for no match
toolGrepText(count) == IF count = 0 THEN "No matches found" ELSE "Matches"

EmptyPatterns == { <<"E", "R", "R">>, <<"z">>, <<"(">> }

NextEmpty ==
    \/ \E source \in {"", "web"}, group \in {"", "one"} :
          ToolReadCall(source, group, 0)
    \/ \E pattern \in EmptyPatterns, source \in {"", "web"} :
          ToolGrep(pattern, source, "", 3, FALSE)
    \/ \E pattern \in { <<"z">>, <<"(">> } : ToolCreateGroup("one", pattern, "", <<>>)
    \/ SearchRLock
    \/ SearchStep
    \/ SearchFinish
    \/ GrepRecv
    \/ GrepEnd
    \/ CancelRequests

SpecEmpty == InitScenario /\ [][NextEmpty]_vars

\* no entry of the buffer that logdump_read read has the source asked for
\* and a content the pattern of the group matches
ReadHasNoMatch ==
    \A i \in 1..Len(toolOut.snap) :
        \/ toolOut.source # "" /\ toolOut.snap[i].Source # toolOut.source
        \/ /\ toolOut.pattern # <<>>
           /\ ~MatchStringFold(toolOut.pattern, toolOut.snap[i].Content)

\* no entry of the buffer that Search scanned has the source asked for and a
\* content the pattern matches
SearchHasNoMatch ==
    \A i \in 1..Len(search.snap) :
        \/ search.source # "" /\ search.snap[i].Source # search.source
        \/ ~MatchString(search.pattern, search.snap[i].Content)

\* C32: a query that finds nothing is answered with a result, not with an
\* error: a logdump_read whose patterns compile, over a buffer with no entry
\* that passes its filters, is answered without error with the text "No log
\* entries found"; a Search whose pattern compiles returns no error, and
\* over a buffer with no match its channel is closed with nothing sent on
\* it; the logdump_grep that called it returns without error with the text
\* "No matches found"; and logdump_read never answers with an error and
\* logdump_grep only when its pattern does not compile.
EmptyResultIsNotAnError ==
    /\ (toolOut.called /\ toolOut.tool = "read" /\ Compiles(toolOut.pattern)) =>
          /\ toolOut.answered /\ ~toolOut.error
          /\ ReadHasNoMatch =>
                toolReadText(toolOut.result) = "No log entries found"
    /\ (toolOut.called /\ toolOut.tool = "read" /\ toolOut.answered) =>
          ~toolOut.error
    /\ (search.status # "none" /\ Compiles(search.pattern)) =>
          /\ search.status = "ok"
          /\ ~grep.error
    /\ (search.g = "done" /\ SearchHasNoMatch) =>
          /\ search.closed
          /\ search.delivered = <<>> /\ search.results = <<>>
    /\ (grep.pc = "returned" /\ search.g = "done" /\ SearchHasNoMatch) =>
          /\ ~grep.error
          /\ toolGrepText(grep.count) = "No matches found"
    /\ grep.error => ~Compiles(search.pattern)

\* a logdump_read with the group whose pattern matches nothing was answered
\* with the text for no entries, over a buffer that holds entries, and a
\* logdump_grep that found nothing has returned
NothingFound ==
    /\ toolOut.called /\ toolOut.tool = "read" /\ toolOut.answered
    /\ toolOut.snap # <<>> /\ toolOut.pattern = <<"z">>
    /\ ReadHasNoMatch
    /\ toolReadText(toolOut.result) = "No log entries found"
    /\ grep.pc = "returned" /\ ~grep.error
    /\ search.g = "done" /\ search.snap # <<>> /\ SearchHasNoMatch
    /\ ~search.cancelled

(***************************************************************************)
(* The running server: the Streams poll their files, the drain goroutine   *)
(* moves the entries into the buffer, and a client reads the newest entry  *)
(* again and again.                                                        *)
(***************************************************************************)
\* the five lines of Submitted were in the files when the server started and
\* are in the buffer, which is full; the writers have not written since
InitWriter ==
    /\ file = [p \in Paths |->
                 IF p = "a.log" THEN <<"E", NL, "E", NL>>
                 ELSE IF p = "b.log" THEN <<"x", NL>> ELSE <<"E", NL, "E", NL>>]
    /\ written = 0
    /\ streams = [p \in Paths |->
                    IF p = "a.log" THEN IdleStream("app", 2, 4)
                    ELSE IF p = "b.log" THEN IdleStream("app", 1, 2)
                    ELSE IdleStream("db", 2, 4)]
    /\ tailed = SourceNames
    /\ ctxDone = FALSE
    /\ entries = <<>>
    /\ detached = {}
    /\ buffer = LastN(Submitted, Capacity)
    /\ drain = [pc |-> "recv", entry |-> NoEntry]
    /\ emitted = Submitted
    /\ appended = Submitted
    /\ search = NoSearch
    /\ grep = NoGrep
    /\ reqCtxDone = FALSE
    /\ readOut = NoRead
    /\ tailOnly = FALSE
    /\ exists = Paths
    /\ unreadable = {}
    /\ watching = {}
    /\ globbed = [s \in SourceNames |-> Paths]
    /\ display = NoDisplay
    /\ toolOut = NoTool
    /\ logGroups = LogGroups
    /\ createOut = NoCreate
    /\ srv = "up"
    /\ cfgStreams = Configured
    /\ disc = NoDisc
    /\ started = [p \in Paths |-> IF streams[p].open THEN 1 ELSE 0]
    /\ scans = NoScans
    /\ pending = [p \in Paths |-> NoPending]
    /\ dropped = {}
    /\ res = NoRes
    /\ conns = NoConns
    /\ shared = NoShared
    /\ tui = NoTui

NextWriter ==
    \/ \E p \in Paths : \E chunk \in Chunks(p) : Write(p, chunk)
    \/ \E p \in Paths : ReadPoll(p)
    \/ \E p \in Paths : ReadString(p)
    \/ \E e \in detached : DetachedSend(e)
    \/ DrainRecv
    \/ DrainAddEntry
    \/ ReadCall("", 1)

SpecWriter == InitWriter /\ [][NextWriter]_vars

SortedPaths(S) == SelectSeq(<<"a.log", "b.log", "c.log">>, LAMBDA p : p \in S)

\* line 63: the glob of Tail(s)
TailGlob(s) ==
    /\ s \notin tailed
    /\ scans[s].pc = "idle"
    /\ tailed' = tailed \cup {s}
    /\ scans' = [scans EXCEPT ![s] = [pc |-> "tail", todo |-> SortedPaths(exists),
                                      n |-> Cardinality(exists), seen |-> @.seen]]
    /\ UNCHANGED <<file, written, streams, ctxDone, entries, detached, buffer,
                   drain, emitted, appended, qvars, xvars, yvars, cvars, started,
                   dvars, ovars>>

\* lines 68-75: one iteration of the loop of Tail(s); Tail returns the error
\* of addFile
TailAddFile(s) ==
    /\ scans[s].pc = "tail"
    /\ scans[s].todo # <<>>
    /\ LET p == Head(scans[s].todo)
       IN  IF ~Matches(s, p)
           THEN /\ scans' = [scans EXCEPT ![s].todo = Tail(@)]
                /\ UNCHANGED <<streams, started>>
           ELSE /\ streams' = addFile(streams, s, p)
                /\ started' = [started EXCEPT ![p] =
                                 @ + IF streams'[p] # streams[p] THEN 1 ELSE 0]
                /\ scans' = IF addFileFails(streams, p)
                            THEN [scans EXCEPT ![s].pc = "done", ![s].todo = <<>>,
                                               ![s].seen = @ \cup {p}]
                            ELSE [scans EXCEPT ![s].todo = Tail(@),
                                               ![s].seen = @ \cup {p}]
    /\ UNCHANGED <<file, written, tailed, ctxDone, entries, detached, buffer,
                   drain, emitted, appended, qvars, xvars, yvars, cvars, dvars, ovars>>

\* lines 77-81: after the loop, the watcher is started if the glob was empty
TailEnd(s) ==
    /\ scans[s].pc = "tail"
    /\ scans[s].todo = <<>>
    /\ scans' = [scans EXCEPT ![s].pc = "done"]
    /\ watching' = IF scans[s].n = 0 THEN watching \cup {s} ELSE watching
    /\ UNCHANGED <<file, written, streams, tailed, ctxDone, entries, detached,
                   buffer, drain, emitted, appended, qvars,
                   tailOnly, exists, unreadable, globbed, display, toolOut,
                   yvars, cvars, started, dvars, ovars>>

\* lines 121-122: the ticker of the watcher of s fires and it globs
WatcherGlob(s) ==
    /\ s \in watching
    /\ scans[s].pc = "done"
    /\ scans' = [scans EXCEPT ![s].pc = "tick", ![s].todo = SortedPaths(exists)]
    /\ UNCHANGED <<file, written, streams, tailed, ctxDone, entries, detached,
                   buffer, drain, emitted, appended, qvars, xvars, yvars, cvars,
                   started, dvars, ovars>>

\* lines 123-127: one iteration of the loop of a tick; the error of addFile
\* is dropped
WatcherAddFile(s) ==
    /\ scans[s].pc = "tick"
    /\ scans[s].todo # <<>>
    /\ LET p == Head(scans[s].todo)
       IN  IF ~Matches(s, p)
           THEN /\ scans' = [scans EXCEPT ![s].todo = Tail(@)]
                /\ UNCHANGED <<streams, started>>
           ELSE /\ streams' = addFile(streams, s, p)
                /\ started' = [started EXCEPT ![p] =
                                 @ + IF streams'[p] # streams[p] THEN 1 ELSE 0]
                /\ scans' = [scans EXCEPT ![s].todo = Tail(@),
                                          ![s].seen = @ \cup {p}]
    /\ UNCHANGED <<file, written, tailed, ctxDone, entries, detached, buffer,
                   drain, emitted, appended, qvars, xvars, yvars, cvars, dvars, ovars>>

\* the loop of the tick is over: back to the select of line 118
WatcherTickEnd(s) ==
    /\ scans[s].pc = "tick"
    /\ scans[s].todo = <<>>
    /\ scans' = [scans EXCEPT ![s].pc = "done"]
    /\ UNCHANGED <<file, written, streams, tailed, ctxDone, entries, detached,
                   buffer, drain, emitted, appended, qvars, xvars, yvars, cvars,
                   started, dvars, ovars>>

\* the directory holds any of the files when Tail is called for the two
\* sources
InitScan ==
    /\ file = [p \in Paths |-> <<>>]
    /\ written = 0
    /\ streams = [p \in Paths |-> NoStream]
    /\ tailed = {}
    /\ ctxDone = FALSE
    /\ entries = <<>>
    /\ detached = {}
    /\ buffer = <<>>
    /\ drain = [pc |-> "recv", entry |-> NoEntry]
    /\ emitted = <<>>
    /\ appended = <<>>
    /\ search = NoSearch
    /\ grep = NoGrep
    /\ reqCtxDone = FALSE
    /\ readOut = NoRead
    /\ tailOnly = FALSE
    /\ exists \in SUBSET Paths
    /\ unreadable \in SUBSET {"b.log"}
    /\ watching = {}
    /\ globbed = [s \in SourceNames |-> {}]
    /\ display = NoDisplay
    /\ toolOut = NoTool
    /\ logGroups = LogGroups
    /\ createOut = NoCreate
    /\ srv = "up"
    /\ cfgStreams = Configured
    /\ disc = NoDisc
    /\ started = [p \in Paths |-> 0]
    /\ scans = NoScans
    /\ pending = [p \in Paths |-> NoPending]
    /\ dropped = {}
    /\ res = NoRes
    /\ conns = NoConns
    /\ shared = NoShared
    /\ tui = NoTui

NextScan ==
    \/ \E p \in Paths : Create(p)
    \/ \E s \in ScanSources : TailGlob(s)
    \/ \E s \in ScanSources : TailAddFile(s)
    \/ \E s \in ScanSources : TailEnd(s)
    \/ \E s \in ScanSources : WatcherGlob(s)
    \/ \E s \in ScanSources : WatcherAddFile(s)
    \/ \E s \in ScanSources : WatcherTickEnd(s)
    \/ \E s \in ScanSources : scans[s].pc = "done" /\ WatcherStop(s)
    \/ \E p \in Paths : ReadStart(p)
    \/ \E p \in Paths : ReadPoll(p)
    \/ Close

SpecScan == InitScan /\ [][NextScan]_vars

\* C34: at most one read goroutine is ever started for a path: a path has a
\* Stream in the map exactly if one goroutine was started for it; a
\* goroutine is started for a path only in a step before which the path had
\* no Stream; and a Stream that is in the map stays in it, with the source
\* that put it there.
OneFollowerPerPath ==
    /\ [](\A p \in Paths : /\ started[p] <= 1
                           /\ streams[p].open <=> started[p] = 1)
    /\ [][\A p \in Paths :
            /\ started'[p] # started[p] =>
                  ~streams[p].open /\ streams'[p].open /\ started'[p] = started[p] + 1
            /\ streams[p].open =>
                  streams'[p].open /\ streams'[p].Name = streams[p].Name]_vars

\* the two sources have both called addFile for a path that both match, and
\* the goroutine started for it has polled
BothSourcesReachedPath ==
    \E p \in Paths :
        /\ p \in scans["app"].seen /\ p \in scans["all"].seen
        /\ started[p] = 1
        /\ streams[p].open /\ streams[p].pc = "poll"

(***************************************************************************)
(* The loop of Stream.read in two steps: the ReadString call with the      *)
(* construction of the entry, and the select that submits it.  Manager.Close*)
(* can run between the two.                                                *)
(***************************************************************************)
\* lines 164-179: reader.ReadString('\n') and, for a complete line, the
\* LogEntry
ReadLine(p) ==
    /\ streams[p].open /\ streams[p].pc = "read"
    /\ LET st == streams[p]
           fill == FirstNL(st.rbuf, 1) = 0
           data == IF fill THEN st.rbuf \o SubSeq(file[p], st.pos + 1, Len(file[p]))
                   ELSE st.rbuf
           newPos == IF fill THEN Len(file[p]) ELSE st.pos
           k == FirstNL(data, 1)
           line == SubSeq(data, 1, k - 1)
           rest == SubSeq(data, k + 1, Len(data))
           entry == MakeEntry(st, line, p)
       IN  IF fill /\ st.closed
           THEN /\ streams' = [streams EXCEPT ![p] = Finished(st)]
                /\ UNCHANGED <<emitted, pending>>
           ELSE IF k = 0
           THEN /\ streams' = [streams EXCEPT ![p] =
                       [st EXCEPT !.pc = "poll", !.pos = newPos, !.rbuf = <<>>,
                                  !.offset = newPos]]
                /\ UNCHANGED <<emitted, pending>>
           ELSE /\ emitted' = Append(emitted, entry)
                /\ pending' = [pending EXCEPT ![p] =
                                 [set |-> TRUE, entry |-> entry, early |-> ~ctxDone]]
                /\ streams' = [streams EXCEPT ![p] =
                       [st EXCEPT !.pc = "select", !.pos = newPos, !.rbuf = rest,
                                  !.LineNumber = st.LineNumber + 1]]
    /\ UNCHANGED <<file, written, tailed, ctxDone, entries, detached, buffer,
                   drain, appended, qvars, xvars, yvars, cvars,
                   svars, dropped, ovars>>

\* a select that sends although the channel is full
ReadSelectOverwrites(p) ==
    /\ streams[p].open /\ streams[p].pc = "select"
    /\ pending' = [pending EXCEPT ![p] = NoPending]
    /\ entries' = IF Len(entries) < ChanCap
                  THEN Append(entries, pending[p].entry)
                  ELSE Append(Tail(entries), pending[p].entry)
    /\ streams' = [streams EXCEPT ![p].pc = "read"]
    /\ UNCHANGED <<detached, dropped>>
    /\ UNCHANGED <<file, written, tailed, ctxDone, buffer, drain, emitted,
                   appended, qvars, xvars, yvars, cvars, svars, ovars>>

\* lines 181-189: the select.  A send that can proceed and a cancelled
\* context are both ready cases, and Go takes either.
ReadSelect(p) ==
    /\ streams[p].open /\ streams[p].pc = "select"
    /\ pending' = [pending EXCEPT ![p] = NoPending]
    /\ \/ /\ Len(entries) < ChanCap
          /\ entries' = Append(entries, pending[p].entry)
          /\ streams' = [streams EXCEPT ![p].pc = "read"]
          /\ UNCHANGED <<detached, dropped>>
       \/ /\ ctxDone
          /\ streams' = [streams EXCEPT ![p] = Finished(@)]
          /\ dropped' = IF pending[p].early
                        THEN dropped \cup {pending[p].entry} ELSE dropped
          /\ UNCHANGED <<entries, detached>>
       \/ /\ Len(entries) >= ChanCap /\ ~ctxDone
          /\ detached' = detached \cup {pending[p].entry}
          /\ streams' = [streams EXCEPT ![p].pc = "read"]
          /\ UNCHANGED <<entries, dropped>>
    /\ UNCHANGED <<file, written, tailed, ctxDone, buffer, drain, emitted,
                   appended, qvars, xvars, yvars, cvars, svars, ovars>>

\* the files of the directory
DeliverPaths == {"a.log", "c.log"}

\* The directory holds a.log and c.log, both empty; Tail has run for both
\* sources and the drain goroutine runs.  The writer of c.log writes one
\* line, the writer of a.log any number.
InitDeliver ==
    /\ file = [p \in Paths |-> <<>>]
    /\ written = 0
    /\ streams = [p \in Paths |->
                    IF p \in DeliverPaths
                    THEN IdleStream(IF p = "c.log" THEN "db" ELSE "app", 0, 0)
                    ELSE NoStream]
    /\ tailed = SourceNames
    /\ ctxDone = FALSE
    /\ entries = <<>>
    /\ detached = {}
    /\ buffer = <<>>
    /\ drain = [pc |-> "recv", entry |-> NoEntry]
    /\ emitted = <<>>
    /\ appended = <<>>
    /\ search = NoSearch
    /\ grep = NoGrep
    /\ reqCtxDone = FALSE
    /\ readOut = NoRead
    /\ tailOnly = FALSE
    /\ exists = DeliverPaths
    /\ unreadable = {}
    /\ watching = {}
    /\ globbed = [s \in SourceNames |-> DeliverPaths]
    /\ display = NoDisplay
    /\ toolOut = NoTool
    /\ logGroups = LogGroups
    /\ createOut = NoCreate
    /\ srv = "up"
    /\ cfgStreams = Configured
    /\ disc = NoDisc
    /\ started = [p \in Paths |-> IF streams[p].open THEN 1 ELSE 0]
    /\ scans = NoScans
    /\ pending = [p \in Paths |-> NoPending]
    /\ dropped = {}
    /\ res = NoRes
    /\ conns = NoConns
    /\ shared = NoShared
    /\ tui = NoTui

NextDeliver ==
    \/ \E p \in DeliverPaths : \E chunk \in Chunks(p) :
          (p = "c.log" => file[p] = <<>>) /\ Write(p, chunk)
    \/ \E p \in DeliverPaths : ReadPoll(p)
    \/ \E p \in DeliverPaths : ReadLine(p)
    \/ \E p \in DeliverPaths : ReadSelect(p)
    \/ \E e \in detached : DetachedSend(e)
    \/ DrainRecv
    \/ DrainAddEntry
    \/ Close

SpecDeliver == InitDeliver /\ [][NextDeliver]_vars

\* The drain goroutine keeps receiving and the detached senders are
\* scheduled.  Nothing obliges a writer to write or the program to call
\* Close.
FairSpecDeliver ==
    /\ SpecDeliver
    /\ WF_vars(\E e \in detached : DetachedSend(e))
    /\ WF_vars(DrainRecv)
    /\ WF_vars(DrainAddEntry)

\* every entry a Stream of the model can build
EntryUniverse ==
    { [Source |-> IF p = "c.log" THEN "db" ELSE "app", Content |-> <<"E">>,
       LineNumber |-> n, File |-> p] : p \in DeliverPaths, n \in 1..MaxWrites }

\* how often e occurs in the sequence s
Count(s, e) == Cardinality({ i \in 1..Len(s) : s[i] = e })

\* how often e is in the channel, with a detached sender, with the drain
\* goroutine or among the entries it has received and appended
Copies(e) ==
    Count(entries, e) + Count(appended, e)
    + (IF e \in detached THEN 1 ELSE 0)
    + (IF drain.pc = "lock" /\ drain.entry = e THEN 1 ELSE 0)

\* was e built by a Stream that has also left its select with it
LeftSelect(e) ==
    /\ Count(emitted, e) > 0
    /\ \A p \in DeliverPaths : ~(pending[p].set /\ pending[p].entry = e)

\* C35 as claimed, for the entries built before Close: none of them is
\* dropped, so that each can still be received.
NoEntryBuiltBeforeCloseIsLost ==
    dropped = {}

\* C35: every entry a Stream has sent on the channel or handed to a detached
\* goroutine is received by the drain goroutine exactly once: it is in
\* exactly one place between the select and the buffer at any time, it is
\* never received twice, and it is received eventually whether it went
\* through the channel or through a detached goroutine.  The entries the
\* select drops because the context is cancelled are the only ones lost.
SubmittedEntriesReceivedOnce ==
    /\ [](\A e \in EntryUniverse :
            /\ Count(emitted, e) <= 1
            /\ Copies(e) <= 1
            /\ Copies(e) = 1 => Count(emitted, e) = 1
            /\ (LeftSelect(e) /\ Copies(e) = 0) =>
                  \E p \in DeliverPaths :
                     /\ streams[p].open /\ streams[p].pc = "done"
                     /\ ctxDone /\ e.File = p)
    /\ \A e \in EntryUniverse :
          (Count(entries, e) = 1 \/ e \in detached) ~> (Count(appended, e) = 1)

\* an entry that went through a detached goroutine and an entry that was
\* sent directly have both been received by the drain goroutine, and an
\* entry built before Close was dropped by the select
DeliveredBothWays ==
    /\ Len(appended) >= 2
    /\ \E i \in 1..Len(emitted) : \E j \in 1..Len(appended) :
          /\ i < Len(emitted)
          /\ appended[j] = emitted[i] /\ j > i
    /\ detached = {} /\ entries = <<>>
    /\ dropped # {}

\* do the streams of ss have pairwise distinct names
DistinctNames(ss) == \A i, j \in 1..Len(ss) : i # j => ss[i].Name # ss[j].Name

\* C36: if the streams of the configuration had pairwise distinct names when
\* AutoDiscover was called, they have pairwise distinct names after it.
NamesUniqueAfterAutoDiscover ==
    (disc.called /\ DistinctNames(disc.before)) => DistinctNames(cfgStreams)

(***************************************************************************)
(* resources/list and resources/read (Server.handleResourcesList and       *)
(* Server.handleResourcesRead), for a configuration with the streams app   *)
(* and Web.                                                                *)
(***************************************************************************)
\* strings.ToLower on the names of the model: Web is the one name with an
\* upper-case letter
ToLower(name) == IF name = "Web" THEN "web" ELSE name

\* lines 935-942 of mcp.go: the resource listed for a stream
listedStream(stream) ==
    [uri |-> <<"logdump://stream/", ToLower(stream.Name)>>, name |-> stream.Name]

\* lines 925-932 of mcp.go: the resource listed for a group
listedGroup(name, group) ==
    [uri |-> <<"logdump://group/", name>>, name |-> group.Name]

\* the resources of handleResourcesList
handleResourcesList(groups, cfg) ==
    { listedGroup(name, groups[name]) : name \in DOMAIN groups }
    \cup { listedStream(cfg[i]) : i \in 1..Len(cfg) }

\* resources/list
ResourcesList ==
    /\ srv = "up"
    /\ res' = [res EXCEPT !.listing = handleResourcesList(logGroups, cfgStreams)]
    /\ UNCHANGED <<file, written, streams, tailed, ctxDone, entries, detached,
                   buffer, drain, emitted, appended, qvars, xvars, yvars, cvars,
                   svars, dvars, mvars>>

\* resources/read with the uri of a resource of the last listing: the
\* branches of lines 969-1013
ResourcesRead(r) ==
    /\ srv = "up"
    /\ r \in res.listing
    /\ res' = [res EXCEPT !.read = r]
    /\ LET rest == r.uri[2]
       IN  IF r.uri[1] = "logdump://stream/"
           THEN /\ CanRLock
                /\ toolOut' = [called |-> TRUE, tool |-> "resource", source |-> rest,
                               group |-> "", limit |-> 100,
                               result |-> GetEntries(buffer, rest, 100),
                               snap |-> buffer, answered |-> TRUE, error |-> FALSE,
                               pattern |-> <<>>]
                /\ srv' = srv
           ELSE IF r.uri[1] = "logdump://group/" /\ rest \in DOMAIN logGroups
           THEN IF ~Compiles(logGroups[rest].Pattern)
                THEN MustCompilePanics("resource", "", rest, 100)
                ELSE /\ CanRLock
                     /\ toolOut' = [called |-> TRUE, tool |-> "resource",
                                    source |-> "", group |-> rest, limit |-> 100,
                                    result |-> groupLines(buffer, logGroups[rest]),
                                    snap |-> buffer, answered |-> TRUE,
                                    error |-> FALSE,
                                    pattern |-> logGroups[rest].Pattern]
                     /\ srv' = srv
           ELSE /\ toolOut' = [called |-> TRUE, tool |-> "resource", source |-> "",
                               group |-> rest, limit |-> 100, result |-> <<>>,
                               snap |-> buffer, answered |-> TRUE, error |-> TRUE,
                               pattern |-> <<>>]
                /\ srv' = srv
    /\ UNCHANGED <<file, written, streams, tailed, ctxDone, entries, detached,
                   buffer, drain, emitted, appended, qvars,
                   tailOnly, exists, unreadable, watching, globbed, display,
                   logGroups, createOut, cvars, svars, dvars, mvars>>

\* Config.Streams with a stream whose name has an upper-case letter
ResourceConfig ==
    << [Name |-> "app", Path |-> "logs",
        Patterns |-> << <<"a", ".log">>, <<"b", ".log">> >>, Color |-> "green"],
       [Name |-> "Web", Path |-> "logs",
        Patterns |-> << <<"c", ".log">> >>, Color |-> "red"] >>

\* the entries the Streams of app and Web have submitted
ResourceEntries ==
    << [Source |-> "app", Content |-> LineE, LineNumber |-> 1, File |-> "a.log"],
       [Source |-> "app", Content |-> LineE, LineNumber |-> 2, File |-> "a.log"],
       [Source |-> "app", Content |-> LineX, LineNumber |-> 1, File |-> "b.log"],
       [Source |-> "Web", Content |-> LineE, LineNumber |-> 1, File |-> "c.log"],
       [Source |-> "Web", Content |-> LineE, LineNumber |-> 2, File |-> "c.log"] >>

InitResource ==
    /\ file = [p \in Paths |->
                 IF p = "a.log" THEN <<"E", NL, "E", NL>>
                 ELSE IF p = "b.log" THEN <<"x", NL>> ELSE <<"E", NL, "E", NL>>]
    /\ written = Len(ResourceEntries)
    /\ streams = [p \in Paths |->
                    IF p = "a.log" THEN IdleStream("app", 2, 4)
                    ELSE IF p = "b.log" THEN IdleStream("app", 1, 2)
                    ELSE IdleStream("Web", 2, 4)]
    /\ tailed = {"app", "Web"}
    /\ ctxDone = FALSE
    /\ entries = SubSeq(ResourceEntries, 1, ChanCap)
    /\ detached = { ResourceEntries[i] : i \in (ChanCap + 1)..Len(ResourceEntries) }
    /\ buffer = <<>>
    /\ drain = [pc |-> "recv", entry |-> NoEntry]
    /\ emitted = ResourceEntries
    /\ appended = <<>>
    /\ search = NoSearch
    /\ grep = NoGrep
    /\ reqCtxDone = FALSE
    /\ readOut = NoRead
    /\ tailOnly = FALSE
    /\ exists = Paths
    /\ unreadable = {}
    /\ watching = {}
    /\ globbed = [s \in SourceNames |-> Paths]
    /\ display = NoDisplay
    /\ toolOut = NoTool
    /\ logGroups = LogGroups
    /\ createOut = NoCreate
    /\ srv = "up"
    /\ cfgStreams = ResourceConfig
    /\ disc = NoDisc
    /\ started = [p \in Paths |-> IF streams[p].open THEN 1 ELSE 0]
    /\ scans = NoScans
    /\ pending = [p \in Paths |-> NoPending]
    /\ dropped = {}
    /\ res = NoRes
    /\ conns = NoConns
    /\ shared = NoShared
    /\ tui = NoTui

NextResource ==
    \/ \E e \in detached : DetachedSend(e)
    \/ DrainRecv
    \/ DrainAddEntry
    \/ ResourcesList
    \/ \E r \in res.listing : ResourcesRead(r)

SpecResource == InitResource /\ [][NextResource]_vars

\* the entries of buf that resource r of the listing stands for: those of the
\* stream of that name, or those of a stream of the group of that name with
\* a content the pattern of the group matches
EntriesOfResource(buf, r) ==
    IF r.uri[1] = "logdump://stream/"
    THEN SelectSeq(buf, LAMBDA e : e.Source = r.name)
    ELSE SelectSeq(buf, LAMBDA e :
            /\ \E i \in 1..Len(logGroups[r.name].Streams) :
                  e.Source = logGroups[r.name].Streams[i]
            /\ MatchStringFold(logGroups[r.name].Pattern, e.Content))

\* C37: a resources/read with the uri of a listed resource is answered
\* without an error, with the entries of the buffer that belong to the
\* stream or the group the resource was listed for.
ResourceRoundTrip ==
    (toolOut.called /\ toolOut.tool = "resource" /\ res.read.uri # <<>>) =>
        /\ toolOut.answered /\ ~toolOut.error
        /\ toolOut.result = EntriesOfResource(toolOut.snap, res.read)

(***************************************************************************)
(* The shared state of the request handlers: Server.accessLog under        *)
(* accessMu, Server.currentAgent, and the LineNumber of a Stream that      *)
(* logdump_streams reads.  Each connection of the WebSocket transport is   *)
(* a goroutine; an access of a variable that no mutex orders is a step     *)
(* that begins it and a step that ends it, and what a read gives is the    *)
(* value at either of the two.                                             *)
(***************************************************************************)
\* the capacity of the access log, 1000 in logAccess (lines 570-571)
AccessCap == 1

\* the parameters of logdump/set_agent
AgentParams == { [AgentName |-> "one", AgentID |-> "1"] }

\* fmt.Sprintf("%s (%s)", params.AgentName, params.AgentID), line 907
FormatAgent(a) == <<a.AgentName, " (", a.AgentID, ")">>

\* what a read of currentAgent gives while it is being written: a string is
\* a pointer and a length, and the read may take one from each value
Torn == <<"torn">>

\* is a connection other than c writing currentAgent
AgentWritten(c) == \E d \in Conns \ {c} : conns[d].pc = "setAgent"

\* handleSetAgent up to the assignment of line 907
SetAgentBegin(c, a) ==
    /\ srv = "up"
    /\ conns[c].pc = "idle"
    /\ conns' = [conns EXCEPT ![c] = [NoConn EXCEPT !.pc = "setAgent",
                                                    !.arg = FormatAgent(a)]]
    /\ UNCHANGED <<file, written, streams, tailed, ctxDone, entries, detached,
                   buffer, drain, emitted, appended, qvars, xvars, yvars, cvars,
                   svars, dvars, res, tui, shared>>

\* the assignment of line 907 is done; no mutex is held
SetAgentEnd(c) ==
    /\ conns[c].pc = "setAgent"
    /\ shared' = [shared EXCEPT !.currentAgent = conns[c].arg]
    /\ conns' = [conns EXCEPT ![c] = NoConn]
    /\ UNCHANGED <<file, written, streams, tailed, ctxDone, entries, detached,
                   buffer, drain, emitted, appended, qvars, xvars, yvars, cvars,
                   svars, dvars, res, tui>>

\* handleToolCall up to the read of s.currentAgent at line 481
ToolCallBegin(c, tool) ==
    /\ srv = "up"
    /\ conns[c].pc = "idle"
    /\ conns' = [conns EXCEPT ![c] = [NoConn EXCEPT !.pc = "agent", !.tool = tool,
                                          !.agentOld = shared.currentAgent]]
    /\ UNCHANGED <<file, written, streams, tailed, ctxDone, entries, detached,
                   buffer, drain, emitted, appended, qvars, xvars, yvars, cvars,
                   svars, dvars, res, tui, shared>>

\* lines 481-484: the read of s.currentAgent is done, without a mutex
ToolCallAgent(c) ==
    /\ conns[c].pc = "agent"
    /\ \E v \in {conns[c].agentOld, shared.currentAgent}
                \cup (IF AgentWritten(c) THEN {Torn} ELSE {}) :
          conns' = [conns EXCEPT ![c].pc = "getStreams",
                                 ![c].agentID = IF v = <<>> THEN <<"unknown">> ELSE v]
    /\ UNCHANGED <<file, written, streams, tailed, ctxDone, entries, detached,
                   buffer, drain, emitted, appended, qvars, xvars, yvars, cvars,
                   svars, dvars, res, tui, shared>>

\* Manager.GetStreams (lines 207-216), the first call of toolStreams and of
\* toolStats: a copy of the map, under m.mu.  toolStats goes on to
\* len(s.manager.GetBuffer()) of line 823 and to logAccess, toolStreams to
\* its loop over the copy.
GetStreamsCall(c) ==
    /\ conns[c].pc = "getStreams"
    /\ LET copy == {p \in Paths : streams[p].open}
       IN  IF conns[c].tool = "stats"
           THEN /\ CanRLock
                /\ conns' = [conns EXCEPT ![c].pc = "lock", ![c].seen = Len(buffer)]
           ELSE conns' = [conns EXCEPT ![c].todo = copy,
                             ![c].pc = IF copy = {} THEN "lock" ELSE "loop"]
    /\ UNCHANGED <<file, written, streams, tailed, ctxDone, entries, detached,
                   buffer, drain, emitted, appended, qvars, xvars, yvars, cvars,
                   svars, dvars, res, tui, shared>>

\* toolStreams, lines 715-718: the loop comes to the Stream of path p and
\* the read of stream.LineNumber begins
StreamsReadBegin(c, p) ==
    /\ conns[c].pc = "loop"
    /\ p \in conns[c].todo
    /\ conns' = [conns EXCEPT ![c].pc = "lineNumber", ![c].path = p,
                              ![c].old = streams[p].LineNumber]
    /\ UNCHANGED <<file, written, streams, tailed, ctxDone, entries, detached,
                   buffer, drain, emitted, appended, qvars, xvars, yvars, cvars,
                   svars, dvars, res, tui, shared>>

\* the read of stream.LineNumber is done, without a mutex
StreamsReadEnd(c) ==
    /\ conns[c].pc = "lineNumber"
    /\ \E v \in {conns[c].old, streams[conns[c].path].LineNumber} :
          conns' = [conns EXCEPT
             ![c].seen = v,
             ![c].todo = @ \ {conns[c].path},
             ![c].pc = IF conns[c].todo = {conns[c].path} THEN "lock" ELSE "loop"]
    /\ UNCHANGED <<file, written, streams, tailed, ctxDone, entries, detached,
                   buffer, drain, emitted, appended, qvars, xvars, yvars, cvars,
                   svars, dvars, res, tui, shared>>

\* logAccess, line 557: s.accessMu.Lock()
LogAccessLock(c) ==
    /\ conns[c].pc = "lock"
    /\ shared.accessMu = ""
    /\ shared' = [shared EXCEPT !.accessMu = c]
    /\ conns' = [conns EXCEPT ![c].pc = "append"]
    /\ UNCHANGED <<file, written, streams, tailed, ctxDone, entries, detached,
                   buffer, drain, emitted, appended, qvars, xvars, yvars, cvars,
                   svars, dvars, res, tui>>

\* logAccess, lines 560-572 and the deferred Unlock of line 558: the append,
\* the cut to the capacity, and the return.  toolStats goes on to the read
\* of len(s.accessLog) of line 828, toolStreams answers.
LogAccessAppend(c) ==
    /\ conns[c].pc = "append"
    /\ LET access == [AgentID |-> conns[c].agentID,
                      Action |-> IF conns[c].tool = "stats" THEN "stats"
                                 ELSE "list_streams"]
       IN  shared' = [shared EXCEPT
              !.accessLog = LastN(Append(@, access), AccessCap),
              !.accessMu = ""]
    /\ conns' = [conns EXCEPT
          ![c] = IF conns[c].tool = "stats"
                 THEN [conns[c] EXCEPT !.pc = "len"] ELSE NoConn]
    /\ UNCHANGED <<file, written, streams, tailed, ctxDone, entries, detached,
                   buffer, drain, emitted, appended, qvars, xvars, yvars, cvars,
                   svars, dvars, res, tui>>

\* toolStats, line 828: the read of len(s.accessLog) is done, without a
\* mutex, and toolStats answers
StatsLen(c) ==
    /\ conns[c].pc = "len"
    /\ conns' = [conns EXCEPT ![c] = NoConn]
    /\ UNCHANGED <<file, written, streams, tailed, ctxDone, entries, detached,
                   buffer, drain, emitted, appended, qvars, xvars, yvars, cvars,
                   svars, dvars, res, tui, shared>>

\* the Stream of a.log is reading and two connections are open
InitRace ==
    /\ file = [p \in Paths |-> <<>>]
    /\ written = 0
    /\ streams = [p \in Paths |->
                    IF p = "a.log" THEN IdleStream("app", 0, 0) ELSE NoStream]
    /\ tailed = SourceNames
    /\ ctxDone = FALSE
    /\ entries = <<>>
    /\ detached = {}
    /\ buffer = <<>>
    /\ drain = [pc |-> "recv", entry |-> NoEntry]
    /\ emitted = <<>>
    /\ appended = <<>>
    /\ search = NoSearch
    /\ grep = NoGrep
    /\ reqCtxDone = FALSE
    /\ readOut = NoRead
    /\ tailOnly = FALSE
    /\ exists = {"a.log"}
    /\ unreadable = {}
    /\ watching = {}
    /\ globbed = [s \in SourceNames |-> {"a.log"}]
    /\ display = NoDisplay
    /\ toolOut = NoTool
    /\ logGroups = LogGroups
    /\ createOut = NoCreate
    /\ srv = "up"
    /\ cfgStreams = Configured
    /\ disc = NoDisc
    /\ started = [p \in Paths |-> IF streams[p].open THEN 1 ELSE 0]
    /\ scans = NoScans
    /\ pending = [p \in Paths |-> NoPending]
    /\ dropped = {}
    /\ res = NoRes
    /\ conns = NoConns
    /\ shared = NoShared
    /\ tui = NoTui

\* requests on the two connections while the Stream of a.log reads the lines
\* that are written to it
NextRace ==
    \/ \E chunk \in Chunks("a.log") : Write("a.log", chunk)
    \/ ReadPoll("a.log")
    \/ ReadString("a.log")
    \/ \E c \in Conns : \E a \in AgentParams : SetAgentBegin(c, a)
    \/ \E c \in Conns : SetAgentEnd(c)
    \/ \E c \in Conns : \E tool \in {"streams", "stats"} : ToolCallBegin(c, tool)
    \/ \E c \in Conns : ToolCallAgent(c)
    \/ \E c \in Conns : GetStreamsCall(c)
    \/ \E c \in Conns : \E p \in Paths : StreamsReadBegin(c, p)
    \/ \E c \in Conns : StreamsReadEnd(c)
    \/ \E c \in Conns : LogAccessLock(c)
    \/ \E c \in Conns : LogAccessAppend(c)
    \/ \E c \in Conns : StatsLen(c)

SpecRace == InitRace /\ [][NextRace]_vars

\* a connection that is reading or writing the access log holds accessMu
AccessLogUnderMutex ==
    \A c \in Conns : conns[c].pc \in {"append", "len"} => shared.accessMu = c

\* no connection reads or writes currentAgent while another one writes it
AgentSynchronised ==
    \A c \in Conns :
       conns[c].pc \in {"agent", "setAgent"} => ~AgentWritten(c)

\* a step does not write the LineNumber of a Stream that a connection is
\* reading
LineNumberNotWrittenInRead ==
    \A c \in Conns :
       conns[c].pc = "lineNumber" =>
          streams'[conns[c].path].LineNumber = streams[conns[c].path].LineNumber

\* C38: the request handlers read and write the access log with accessMu
\* held, never read or write the current agent while another handler writes
\* it, and logdump_streams never reads the LineNumber of a Stream during a
\* step of its goroutine that writes it.
HandlersAreRaceFree ==
    /\ [](AccessLogUnderMutex /\ AgentSynchronised)
    /\ [][LineNumberNotWrittenInRead]_vars

(***************************************************************************)
(* The interactive viewer (tui.Model): updateLogs on a tick, the keys of   *)
(* the search mode, clear, pause and the stream toggles.  logBuffer and    *)
(* filteredBuffer are Go slices: an assignment of one to the other makes   *)
(* them share a backing array, and an append within the capacity writes    *)
(* into the array.                                                         *)
(***************************************************************************)
\* the longest search query typed
MaxQuery == 1

\* the characters typed into the search
Runes == {"e"}

\* the elements of a slice
Elems(s) == SubSeq(s.arr, s.off + 1, s.off + s.len)

\* cap(s)
Cap(s) == Len(s.arr) - s.off

\* append(s, e) within the capacity: the element is written after the last
InPlace(s, e) == [s EXCEPT !.arr[s.off + s.len + 1] = e, !.len = @ + 1]

\* append(s, e) beyond the capacity: a new array of twice the capacity (of
\* one element for the capacity 0) receives the elements and e
Grown(s, e) ==
    LET n == IF Cap(s) = 0 THEN 1 ELSE 2 * Cap(s)
        es == Append(Elems(s), e)
    IN  [arr |-> [i \in 1..n |-> IF i <= Len(es) THEN es[i] ELSE NoEntry],
         off |-> 0, len |-> Len(es)]

\* s[len(s)-n:] for a slice longer than n
CutTo(s, n) ==
    IF s.len > n THEN [s EXCEPT !.off = @ + (s.len - n), !.len = n] ELSE s

\* m.logBuffer = append(m.logBuffer, e) and the cut of lines 744-746
AppendLog(m, e) ==
    IF m.logBuffer.len < Cap(m.logBuffer)
    THEN LET s == InPlace(m.logBuffer, e)
         IN  [m EXCEPT !.logBuffer = CutTo(s, ViewCap),
                       !.filteredBuffer.arr = IF m.shared THEN s.arr ELSE @]
    ELSE [m EXCEPT !.logBuffer = CutTo(Grown(m.logBuffer, e), ViewCap),
                   !.shared = FALSE]

\* m.filteredBuffer = append(m.filteredBuffer, e) and the cut of lines
\* 761-763
AppendFiltered(m, e) ==
    IF m.filteredBuffer.len < Cap(m.filteredBuffer)
    THEN LET s == InPlace(m.filteredBuffer, e)
         IN  [m EXCEPT !.filteredBuffer = CutTo(s, ViewCap),
                       !.logBuffer.arr = IF m.shared THEN s.arr ELSE @]
    ELSE [m EXCEPT !.filteredBuffer = CutTo(Grown(m.filteredBuffer, e), ViewCap),
                   !.shared = FALSE]

\* strings.Contains(strings.ToLower(content), strings.ToLower(query)),
\* lines 749-752
ContainsLower(content, query) ==
    LET txt == FoldSeq(content)
        q == FoldSeq(query)
    IN  \E i \in 0..(Len(txt) - Len(q)) : SubSeq(txt, i + 1, i + Len(q)) = q

\* regexp.QuoteMeta: no character typed into the search is a metacharacter
QuoteMeta(query) == query

\* a slice made by make([]LogEntry, 0) and an append for each element of es
RECURSIVE Collected(_, _)
Collected(s, es) ==
    IF es = <<>> THEN s
    ELSE Collected(IF s.len < Cap(s) THEN InPlace(s, Head(es))
                   ELSE Grown(s, Head(es)), Tail(es))

\* applyFilters, lines 805-812: the entries of logBuffer whose stream is
\* selected, in a new slice
applyFilters(m) ==
    [m EXCEPT !.filteredBuffer =
                  Collected(Make(0), SelectSeq(Elems(m.logBuffer),
                      LAMBDA e : m.selectedStreams[e.Source])),
              !.shared = FALSE]

\* applySearch, lines 785-803
applySearch(m, query) ==
    LET q == [m EXCEPT !.searchQuery = query]
    IN  IF query = <<>> THEN applyFilters(q)
        ELSE [q EXCEPT !.filteredBuffer =
                  Collected(Make(0), SelectSeq(Elems(m.logBuffer),
                      LAMBDA e : /\ m.selectedStreams[e.Source]
                                 /\ MatchStringFold(QuoteMeta(query), e.Content))),
                       !.shared = FALSE]

\* updateLogs, lines 729-783, for the entry it receives
updateLogs(m, e) ==
    LET l == AppendLog([m EXCEPT !.arrived = Append(@, e)], e)
    IN  IF /\ l.selectedStreams[e.Source]
           /\ (l.searchQuery = <<>> \/ ContainsLower(e.Content, l.searchQuery))
        THEN AppendFiltered(l, e)
        ELSE l

\* a tick (lines 291-295): updateLogs unless paused; without an entry in the
\* channel the select takes its default
Tick ==
    /\ ~tui.paused
    /\ entries # <<>>
    /\ tui' = updateLogs(tui, Head(entries))
    /\ entries' = Tail(entries)
    /\ UNCHANGED <<file, written, streams, tailed, ctxDone, detached,
                   buffer, drain, emitted, appended, qvars, xvars, yvars, cvars,
                   svars, dvars, res, conns, shared>>

\* a key press changes the Model only
KeyFrame ==
    UNCHANGED <<file, written, streams, tailed, ctxDone, entries, detached,
                buffer, drain, emitted, appended, qvars, xvars, yvars, cvars,
                svars, dvars, res, conns, shared>>

\* "/" in normal mode, line 171
KeySlash ==
    /\ ~tui.searchMode
    /\ tui' = [tui EXCEPT !.searchMode = TRUE]
    /\ KeyFrame

\* a character typed in search mode, lines 154-158
KeyRune(r) ==
    /\ tui.searchMode
    /\ Len(tui.searchQuery) < MaxQuery
    /\ tui' = applySearch(tui, Append(tui.searchQuery, r))
    /\ KeyFrame

\* backspace in search mode, lines 149-153
KeyBackspace ==
    /\ tui.searchMode
    /\ tui' = applySearch(tui, IF tui.searchQuery = <<>> THEN <<>>
                               ELSE SubSeq(tui.searchQuery, 1,
                                           Len(tui.searchQuery) - 1))
    /\ KeyFrame

\* enter in search mode, lines 146-148
KeyEnter ==
    /\ tui.searchMode
    /\ tui' = applySearch([tui EXCEPT !.searchMode = FALSE], tui.searchQuery)
    /\ KeyFrame

\* esc in search mode, lines 141-145: filteredBuffer becomes logBuffer itself
KeyEsc ==
    /\ tui.searchMode
    /\ tui' = [tui EXCEPT !.searchMode = FALSE, !.searchQuery = <<>>,
                          !.filteredBuffer = tui.logBuffer, !.shared = TRUE]
    /\ KeyFrame

\* "c" in normal mode, lines 249-253: a new array for logBuffer, and
\* filteredBuffer becomes logBuffer itself
KeyClear ==
    /\ ~tui.searchMode
    /\ LET s == Make(ViewCap)
       IN  tui' = [tui EXCEPT !.logBuffer = s, !.filteredBuffer = s,
                              !.shared = TRUE, !.arrived = <<>>]
    /\ KeyFrame

\* "p" in normal mode, lines 255-256
KeyPause ==
    /\ ~tui.searchMode
    /\ tui' = [tui EXCEPT !.paused = ~@]
    /\ KeyFrame

\* "1".."9" in normal mode, lines 264-271: the stream is toggled and
\* applyFilters runs
KeyToggle(s) ==
    /\ ~tui.searchMode
    /\ tui' = applyFilters([tui EXCEPT !.selectedStreams[s] = ~@])
    /\ KeyFrame

\* the viewer runs without the drain goroutine: the Streams have submitted
\* five entries, one is in the channel and the others wait to be sent
InitView ==
    /\ file = [p \in Paths |->
                 IF p = "a.log" THEN <<"E", NL, "E", NL>>
                 ELSE IF p = "b.log" THEN <<"x", NL>> ELSE <<"E", NL, "E", NL>>]
    /\ written = Len(Submitted)
    /\ streams = [p \in Paths |->
                    IF p = "a.log" THEN IdleStream("app", 2, 4)
                    ELSE IF p = "b.log" THEN IdleStream("app", 1, 2)
                    ELSE IdleStream("db", 2, 4)]
    /\ tailed = SourceNames
    /\ ctxDone = FALSE
    /\ entries = SubSeq(Submitted, 1, ChanCap)
    /\ detached = { Submitted[i] : i \in (ChanCap + 1)..Len(Submitted) }
    /\ buffer = <<>>
    /\ drain = [pc |-> "recv", entry |-> NoEntry]
    /\ emitted = Submitted
    /\ appended = <<>>
    /\ search = NoSearch
    /\ grep = NoGrep
    /\ reqCtxDone = FALSE
    /\ readOut = NoRead
    /\ tailOnly = FALSE
    /\ exists = Paths
    /\ unreadable = {}
    /\ watching = {}
    /\ globbed = [s \in SourceNames |-> Paths]
    /\ display = NoDisplay
    /\ toolOut = NoTool
    /\ logGroups = LogGroups
    /\ createOut = NoCreate
    /\ srv = "up"
    /\ cfgStreams = Configured
    /\ disc = NoDisc
    /\ started = [p \in Paths |-> IF streams[p].open THEN 1 ELSE 0]
    /\ scans = NoScans
    /\ pending = [p \in Paths |-> NoPending]
    /\ dropped = {}
    /\ res = NoRes
    /\ conns = NoConns
    /\ shared = NoShared
    /\ tui = NoTui

NextView ==
    \/ \E e \in detached : DetachedSend(e)
    \/ Tick
    \/ KeySlash
    \/ \E r \in Runes : KeyRune(r)
    \/ KeyBackspace
    \/ KeyEnter
    \/ KeyEsc
    \/ KeyClear
    \/ KeyPause
    \/ \E s \in SourceNames : KeyToggle(s)

SpecView == InitView /\ [][NextView]_vars

\* the entries of logBuffer that the viewer is to show: their stream is
\* selected and their content holds the search query, whatever the case
Shown(m) ==
    SelectSeq(Elems(m.logBuffer),
              LAMBDA e : /\ m.selectedStreams[e.Source]
                         /\ ContainsLower(e.Content, m.searchQuery))

\* filteredBuffer is the entries of logBuffer of the selected streams that
\* match the search query
FilteredIsShown == Elems(tui.filteredBuffer) = Shown(tui)

\* logBuffer is the last ViewCap entries received, in the order of arrival
LogBufferIsNewest == Elems(tui.logBuffer) = LastN(tui.arrived, ViewCap)

\* a step that appends to filteredBuffer changes no element logBuffer keeps,
\* and one that appends to logBuffer none filteredBuffer keeps
AppendKeepsOther ==
    (entries' # entries /\ tui'.arrived # tui.arrived) =>
        /\ Elems(tui'.logBuffer) =
              LastN(Append(Elems(tui.logBuffer), Head(entries)), ViewCap)
        /\ Elems(tui'.filteredBuffer) \in
              { Elems(tui.filteredBuffer),
                LastN(Append(Elems(tui.filteredBuffer), Head(entries)), ViewCap) }

\* C39: after any ticks and key presses, filteredBuffer is the entries of
\* logBuffer whose stream is selected and whose content matches the search
\* query, logBuffer is the newest entries received in the order of arrival,
\* and an append to one of the buffers overwrites no element of the other.
ViewerBuffersConsistent ==
    /\ [](FilteredIsShown /\ LogBufferIsNewest)
    /\ [][AppendKeepsOther]_vars

(***************************************************************************)
(* logdump_grep with a limit: what it returns, and what becomes of the     *)
(* Search goroutine it started once it has returned.                       *)
(***************************************************************************)
\* the limits of the logdump_grep calls
LimitArgs == {-1, 0, 1, 2}

NextLimit ==
    \/ \E e \in detached : DetachedSend(e)
    \/ DrainRecv
    \/ DrainAddEntry
    \/ \E source \in {"", "app"}, limit \in LimitArgs :
          GrepCall(<<"E">>, source, limit)
    \/ SearchRLock
    \/ SearchStep
    \/ SearchFinish
    \/ GrepRecv
    \/ GrepEnd
    \/ CancelRequests

SpecLimit == InitQuery /\ [][NextLimit]_vars

\* Every goroutine that can take a step is scheduled eventually.  Nothing
\* obliges a client to send a request or main to cancel the context.
FairSpecLimit ==
    /\ SpecLimit
    /\ WF_vars(\E e \in detached : DetachedSend(e))
    /\ WF_vars(DrainRecv)
    /\ WF_vars(DrainAddEntry)
    /\ WF_vars(SearchRLock)
    /\ WF_vars(SearchStep)
    /\ WF_vars(SearchFinish)
    /\ WF_vars(GrepRecv)
    /\ WF_vars(GrepEnd)

\* a toolGrep call whose Search was not cut short by the context has
\* returned the first matches of the buffer the Search read, as many as the
\* limit allows and none for a limit of 0 or less, and counts the lines it
\* returns
GrepReturnsFirstMatches ==
    (grep.pc = "returned" /\ ~grep.error /\ ~search.cancelled) =>
        /\ grep.count = Len(grep.lines)
        /\ grep.lines = FirstN(Wanted(search.snap, search.pattern, search.source),
                               grep.limit)
        /\ grep.limit <= 0 => grep.lines = <<>>

\* C40: logdump_grep with limit L returns the first L matches of the buffer
\* in the order of arrival (none for L <= 0) with a count that is the number
\* of lines, and once it has returned the Search goroutine it started ends
\* and releases the read lock.
GrepRespectsLimitAndSearchEnds ==
    /\ []GrepReturnsFirstMatches
    /\ (grep.pc = "returned" /\ ~grep.error) ~> (search.g = "done")

====
